---- MODULE Spec2Model ----
(***************************************************************************)
(* A model of the orchestration core of bbclaw:                            *)
(*   - the plan executor      (core/task_queue.py, core/planner.py)        *)
(*   - the agent loop         (core/agent.py)                              *)
(*   - the background loops   (core/autonomous_loop.py,                    *)
(*                             core/improvement_loop.py)                   *)
(* Each subsystem has its own specification (SpecTQ, SpecAgent,            *)
(* SpecLoops); the variables of the other subsystems are held at their     *)
(* idle value.                                                             *)
(***************************************************************************)
EXTENDS Integers, Sequences, FiniteSets, TLC

(***************************************************************************)
(* Bounds of the model.                                                    *)
(***************************************************************************)
\* largest number of tasks in a plan; task ids are 1..MaxTasks, and an id
\* in 1..MaxTasks that is not a task of the plan is an id missing from it
MaxTasks == 3
\* Agent.max_iterations as configured for the agent under test
MaxIterations == 3
\* largest number of tool calls the provider emits in one assistant turn
MaxCalls == 2
\* largest number of scheduled items due at one autonomous tick
MaxDue == 2
\* largest number of fired reminders waiting in the orchestrator
MaxReminders == 2
\* largest number of improvement cycles followed
MaxCycles == 2

\* longest path argument handed to a file tool, in components
MaxPathLen == 3

\* resolution of the clock: distinct instants within one second (the
\* sub-second part of a datetime is 0..TicksPerSecond-1)
TicksPerSecond == 2

\* largest number of calls (emit, mark_all_resolved) on the error collector
MaxEvents == 4

\* largest number of entries in the "tasks" list of a planner reply
MaxEntries == 2

\* number of half-hour steps the clock of the scheduled item advances
MaxClock == 3

\* the improvement gate: minutes on the clock, cycles run, and the
\* configuration of the gate in minutes, cycles and tokens
MaxGateClock == 4
MaxGateCycles == 2
HourMinutes == 3
interval_minutes == 1
max_cycles_per_hour == 1
token_budget_per_hour == 2
idle_minutes_before_run == 1

\* the message bus: events published and subscriptions made
MaxPublished == 2
MaxSubscriptions == 2

\* Orchestrator.run: calls made one after the other
MaxRuns == 2

\* config autonomous.max_objective_runs_per_day (default 4) of the
\* objective model
max_objective_runs_per_day == 2

\* improvement cycles run one after the other in the cycle model
MaxImproveCycles == 2

\* file changes the agent makes during the run of one cycle
MaxChanges == 2

\* largest number of tasks of the plan handed to _synthesize
MaxPlanTasks == 3

\* largest number of ticks of the autonomous loop that process due items
MaxItemTicks == 2
\* largest number of times one item comes due
MaxTimesDue == 2

(***************************************************************************)
(* Program constants.                                                      *)
(***************************************************************************)
\* _complete_with_retry(max_retries=2)
max_retries == 2

\* error_collector._DEDUP_WINDOW_S
DEDUP_WINDOW_S == 60
\* error_collector._MAX_ERRORS
MAX_ERRORS == 50

\* Orchestrator.run: for _ in range(30)
poll_limit == 30

\* config autonomous.tick_minutes: the default of AutonomousLoop._loop
default_tick_minutes == 5

VARIABLES
    \* ---- plan executor: the Plan and the locals of TaskQueue.execute ----
    plan_tasks,     \* ids of the tasks of the plan (unique ids)
    depends_on,     \* TaskSpec.depends_on, per task
    status,         \* TaskSpec.status, per task
    result,         \* TaskSpec.result, per task: "None", "Empty" (""), "Text"
    error,          \* TaskSpec.error, per task
    completed_ids,  \* local completed_ids of execute
    ready,          \* local ready of execute: the batch being run
    tq_pc,          \* position of execute: "loop", "batch", "done"
    task_pc,        \* position of each _run_task coroutine of the batch
    dep_ctx,        \* dependency context handed to the agent, per task
    agent_runs,     \* history: how many times agent.run was awaited, per task
    \* ---- agent loop: the locals of Agent.run and _complete_with_retry ----
    messages,       \* local messages of run
    api_messages,   \* the list last handed to provider.complete
    ag_pc,          \* position of run: "loop", "complete", "tools",
                    \*   "returned", "raised"
    iteration,      \* loop variable of run
    attempt,        \* loop variable of _complete_with_retry
    sleeps,         \* backoff sleeps of the current _complete_with_retry
    response,       \* the response being handled
    tc_index,       \* index of the tool call being dispatched
    tool_calls_count, \* local tool_calls_count of run
    ag_result,      \* the AgentResult returned
    ag_exception,   \* the exception that left run, if any
    responses,      \* history: the responses the provider returned
    dispatched,     \* history: the tool calls passed to tool_registry.call
    provider_calls, \* history: how each provider.complete call of the
                    \*   current _complete_with_retry ended
    \* ---- background loops: Orchestrator, ImprovementLoop, AutonomousLoop ----
    has_db,             \* orch.db is set
    improvement_running, \* orch._improvement_running
    pending_reminders,  \* length of orch._pending_reminders
    workspace,          \* the process-wide workspace root (tools.filesystem)
    git_branch,         \* the branch checked out: "main" or "improve"
    imp_pc,             \* position of ImprovementLoop._loop: "sleep", "cycle"
    imp_running,        \* ImprovementLoop._running
    cycle_count,        \* ImprovementLoop._cycle_count
    auto_pc,            \* position of AutonomousLoop._loop: "sleep", "items",
                        \*   "item_task", "objective"
    auto_running,       \* AutonomousLoop._running
    due_items,          \* the due items of the tick not yet processed
    objective_interval, \* AutonomousLoop._objective_interval_minutes
    \* ---- workspace file tools: tools/filesystem.py ----
    fs_root,            \* _WORKSPACE_ROOT, resolved
    fs_path,            \* the path argument of the last tool invocation
    fs_base,            \* local base of _safe_path
    fs_target,          \* local target of _safe_path
    fs_outcome,         \* "none", "accepted", "ValueError"
    fs_touched,         \* the paths the handler went on to use
    \* ---- recurrence arithmetic: core/scheduler.py ----
    sc_after,           \* the instant handed over as after / now
    sc_spec,            \* the schedule spec handed to compute_next_run
    sc_next_run,        \* what compute_next_run returned
    sc_tick_minutes,    \* the period handed to next_aligned_tick
    sc_tick,            \* what next_aligned_tick returned
    sc_pc,              \* "idle", "start", "computed", "aligned"
    \* ---- error collector: core/error_collector.py ----
    ec_now,             \* time.time(), in seconds
    ec_records,         \* the ErrorRecord objects created, by creation order
    ec_errors,          \* ErrorCollector._errors: the records in the ring
    ec_dedup_keys,      \* ErrorCollector._dedup_keys: key -> record
    ec_log,             \* history: the calls made on the collector
    \* ---- planner: Planner.create_plan (core/planner.py) ----
    pl_user_request,    \* the argument user_request
    pl_reply,           \* response.content, by the JSON value it spells
    pl_pc,              \* "idle", "complete" (awaiting the provider), "done"
    pl_outcome,         \* the Plan returned or the exception raised
    \* ---- scheduled items: tools/scheduling.py, memory/db.py, main.py ----
    si_clock,           \* now_utc(), in half hours from 2024-01-01T00:00Z
    si_item,            \* the row of the item in scheduled_items, or None
    si_pc,              \* _process_scheduled_items: "idle", "running"
    si_fire_now,        \* local now of the _process_scheduled_items running
    si_processed,       \* history: the due item last processed, its outcome
                        \*   and the updates written for it
    \* ---- tool registry: ToolRegistry.call (tools/registry.py) ----
    rg_auto_commit,     \* _auto_commit_enabled
    rg_call,            \* the call being made: tool name and argument names
    rg_pc,              \* "idle", "ready", "handler", "commit", "done"
    rg_handler,         \* "not_invoked", "running", "returned", "raised"
    rg_commits,         \* history: _auto_commit was awaited for this call
    rg_commit_outcome,  \* history: how the git command of _auto_commit ended
    rg_result,          \* the ToolResult returned, or the exception raised
    \* ---- improvement gate: ImprovementLoop._should_run / _run_cycle ----
    gt_now,                 \* the clock, in minutes
    gt_enabled,             \* cfg["enabled"]
    gt_last_run_at,         \* self._last_run_at: None, or the time it holds
    gt_attempts,            \* the rows of improvement_attempts
    gt_ran,                 \* history: every cycle that ran, recorded or not
    gt_errors,              \* collector.has_actionable_errors()
    gt_last_user_activity,  \* orch._last_user_activity
    gt_branch,              \* the branch checked out: "main" or "improve"
    gt_pc,                  \* "idle", "sleeping", "gate", "starting", "cycle"
    gt_user_run,            \* a user request is in flight in orch.run
    gt_starts,              \* history: the time every cycle was let start
    \* ---- message bus: MessageBus (core/message_bus.py) ----
    bus_subscribers,    \* _subscribers: event type or "*" -> list of handlers
    bus_queue,          \* _queue: the events waiting, oldest first
    bus_running,        \* _running
    bus_pc,             \* _loop: "idle", "not_started", "waiting",
                        \* "dispatching", "stopped"
    bus_event,          \* the event _dispatch is working on, 0 for none
    bus_handlers,       \* the handlers list _dispatch built for it
    bus_pending,        \* positions in that list whose coroutine has not run
    bus_published,      \* history: the type of every event published
    bus_dispatches,     \* history: event and _subscribers at each _dispatch
    bus_deliveries,     \* history: every handler run: event, handler, outcome
    bus_loop_errors,    \* history: exceptions that reached _loop
    \* ---- request pipeline: Orchestrator.run / run_direct ----
    rn_calls,               \* history: intent of every call, and the flag
                            \*   as it was when the call began
    rn_pc,                  \* position of the call in flight: "idle", "ready",
                            \*   "polling", "proceed", "agent", "plan",
                            \*   "synthesize", "save", "embed", "returned",
                            \*   "raised"
    rn_intent,              \* argument intent
    rn_argument,            \* argument user_input, as passed
    rn_input,               \* local user_input
    rn_polls,               \* one-second sleeps of the wait loop so far
    rn_proceeded,           \* history: how the call got past the wait
    rn_improvement_running, \* orch._improvement_running
    rn_last_user_activity,  \* orch._last_user_activity: the call that set it
    rn_response,            \* local response
    rn_conversations,       \* the rows of the conversations table
    rn_returned,            \* what the call returned
    \* ---- project objectives: AutonomousLoop._loop, lines 216-266 ----
    ob_pc,                  \* position of _loop: "idle", "sleeping", "tick",
                            \*   "objective"
    ob_has_objective,       \* project -> its objective is not empty
    ob_others,              \* further projects with an objective
    ob_order,               \* the projects by last_autonomous_at ascending
    ob_runs_today,          \* project -> autonomous_runs_today
    ob_runs_date_is_today,  \* project -> autonomous_runs_date = today
    ob_last_objective_run_at, \* _last_objective_run_at, as minutes ago
    ob_current,             \* _current_objective
    ob_project_count,       \* history: project_count of the tick
    ob_gap,                 \* history: minutes between the objective being
                            \*   processed and the one before it
    ob_in_tick,             \* history: objectives processed in this tick
    ob_outcome,             \* history: how the last awaited run ended
    \* ---- one improvement cycle: ImprovementLoop._run_cycle ----
    cy_pc,                  \* position in _run_cycle: "idle", "waiting",
                            \*   "run", "diff", "commit", "finally",
                            \*   "record", "ended"
    cy_cycle_count,         \* _cycle_count
    cy_branch,              \* the branch checked out in the repository
    cy_committed,           \* the improvement branch holds commits of changes
    cy_dirty,               \* the working tree holds uncommitted changes
    cy_steps,               \* history: changes made during the run
    cy_on_main,             \* history: the changes of the cycle are on main
    cy_errors,              \* the collector has unresolved errors
    cy_fix_mode,            \* local error_context is not empty
    cy_resolved,            \* history: mark_all_resolved ran in the cycle
    cy_late_errors,         \* an unresolved error was captured during the cycle
    cy_outcome,             \* history: how the awaited orch.run ended
    cy_changed_files,       \* local changed_files is not empty
    cy_merged,              \* local merged
    cy_error_msg,           \* local error_msg
    cy_returning,           \* the return of line 264 is pending
    cy_attempts,            \* rows of improvement_attempts
    cy_last_run_at,         \* _last_run_at: the cycle that stamped it
    cy_persisted,           \* the loop state written by _save_persisted_state
    \* ---- synthesis: Orchestrator._synthesize ----
    sy_tasks,               \* plan.tasks after execute: status and result
    sy_pc,                  \* "idle", "called", "agent", "returned"
    sy_agent_input,         \* history: the digests the synthesizer was given
    sy_response,            \* what _synthesize returned
    \* ---- the due items of a tick: _process_scheduled_items ----
    du_pc,                  \* "idle", "sleep", "items", "fired"
    du_rows,                \* scheduled_items: per item, due and schedule
    du_list,                \* the items of due_items still to be processed
    du_snapshot,            \* history: what get_due_items returned
    du_fired,               \* history: the items fired in this tick
    du_fires,               \* history: how many times each item fired
    du_dues,                \* history: how many times each item came due
    du_ticks                \* the ticks so far

vars_tq == <<plan_tasks, depends_on, status, result, error, completed_ids,
             ready, tq_pc, task_pc, dep_ctx, agent_runs>>

vars_ag == <<messages, api_messages, ag_pc, iteration, attempt, sleeps,
             response, tc_index, tool_calls_count, ag_result, ag_exception,
             responses, dispatched, provider_calls>>

vars_lp == <<has_db, improvement_running, pending_reminders, workspace,
             git_branch, imp_pc, imp_running, cycle_count, auto_pc,
             auto_running, due_items, objective_interval>>

vars_fs == <<fs_root, fs_path, fs_base, fs_target, fs_outcome, fs_touched>>

vars_sc == <<sc_after, sc_spec, sc_next_run, sc_tick_minutes, sc_tick, sc_pc>>

vars_ec == <<ec_now, ec_records, ec_errors, ec_dedup_keys, ec_log>>

vars_pl == <<pl_user_request, pl_reply, pl_pc, pl_outcome>>

vars_si == <<si_clock, si_item, si_pc, si_fire_now, si_processed>>

vars_rg == <<rg_auto_commit, rg_call, rg_pc, rg_handler, rg_commits,
            rg_commit_outcome, rg_result>>

vars_gt == <<gt_now, gt_enabled, gt_last_run_at, gt_attempts, gt_ran, gt_errors, gt_last_user_activity, gt_branch, gt_pc, gt_user_run, gt_starts>>

vars_bus == <<bus_subscribers, bus_queue, bus_running, bus_pc, bus_event, bus_handlers, bus_pending, bus_published, bus_dispatches, bus_deliveries, bus_loop_errors>>

vars_rn == <<rn_calls, rn_pc, rn_intent, rn_argument, rn_input, rn_polls, rn_proceeded, rn_improvement_running, rn_last_user_activity, rn_response, rn_conversations, rn_returned>>

vars_ob == <<ob_pc, ob_has_objective, ob_others, ob_order, ob_runs_today, ob_runs_date_is_today, ob_last_objective_run_at, ob_current, ob_project_count, ob_gap, ob_in_tick, ob_outcome>>

vars_cy == <<cy_pc, cy_cycle_count, cy_branch, cy_committed, cy_dirty, cy_steps, cy_on_main, cy_errors, cy_fix_mode, cy_resolved, cy_outcome, cy_changed_files, cy_merged, cy_error_msg, cy_returning, cy_attempts, cy_last_run_at, cy_persisted, cy_late_errors>>

vars_sy == <<sy_tasks, sy_pc, sy_agent_input, sy_response>>

vars_du == <<du_pc, du_rows, du_list, du_snapshot, du_fired, du_fires, du_dues, du_ticks>>

vars == <<vars_tq, vars_ag, vars_lp, vars_fs, vars_sc, vars_ec, vars_pl, vars_si, vars_rg, vars_gt, vars_bus, vars_rn, vars_ob, vars_cy, vars_sy, vars_du>>

\* what a step of one subsystem leaves alone: the other subsystems
TQFrame == UNCHANGED <<vars_ag, vars_lp, vars_fs, vars_sc, vars_ec, vars_pl, vars_si, vars_rg, vars_gt, vars_bus,
                vars_rn, vars_ob, vars_cy, vars_sy, vars_du>>
AgentFrame == UNCHANGED <<vars_tq, vars_lp, vars_fs, vars_sc, vars_ec, vars_pl, vars_si, vars_rg, vars_gt, vars_bus,
                vars_rn, vars_ob, vars_cy, vars_sy, vars_du>>
LoopsFrame == UNCHANGED <<vars_tq, vars_ag, vars_fs, vars_sc, vars_ec, vars_pl, vars_si, vars_rg, vars_gt, vars_bus,
                vars_rn, vars_ob, vars_cy, vars_sy, vars_du>>

RECURSIVE SeqsUpTo(_, _)
\* the sequences over S of length at most n
SeqsUpTo(S, n) ==
    IF n = 0 THEN {<<>>}
    ELSE LET shorter == SeqsUpTo(S, n - 1) IN
         shorter \cup {Append(q, x) : q \in {r \in shorter : Len(r) = n - 1}, x \in S}

(***************************************************************************)
(* core/planner.py: TaskSpec and Plan                                      *)
(***************************************************************************)
TaskIds == 1..MaxTasks

NoError == [kind |-> "none", deps |-> {}]

\* mutant of can_run: one satisfied dependency is enough
can_run_any(t, completed) ==
    depends_on[t] = {} \/ \E dep \in depends_on[t] : dep \in completed

\* TaskSpec.can_run
can_run(t, completed) == \A dep \in depends_on[t] : dep \in completed

\* a selection that forgets the status of the task
get_ready_any(completed) == {t \in plan_tasks : can_run(t, completed)}

\* Plan.get_ready
get_ready(completed) ==
    {t \in plan_tasks : status[t] = "pending" /\ can_run(t, completed)}

\* mutant of get_pending: looks for the running tasks
get_pending_running == {t \in plan_tasks : status[t] = "running"}

\* Plan.get_pending
get_pending == {t \in plan_tasks : status[t] = "pending"}

\* Plan.is_complete
is_complete == \A t \in plan_tasks : status[t] \in {"done", "failed"}

\* Plan.has_failures
has_failures == \E t \in plan_tasks : status[t] = "failed"

(***************************************************************************)
(* core/task_queue.py: TaskQueue.execute and TaskQueue._run_task           *)
(***************************************************************************)
\* a deadlock that fails every task of the plan, finished or not
BlockedStatusAll(pending) == [t \in plan_tasks |-> "failed"]

\* mutant of BlockedStatus: the blocked tasks are logged but left pending
BlockedStatusKept(pending) == status

\* execute, lines 58-59: every pending task becomes failed
BlockedStatus(pending) ==
    [t \in plan_tasks |-> IF t \in pending THEN "failed" ELSE status[t]]

\* mutant of BlockedError: the message lists only the completed dependencies
BlockedErrorCompleted(pending) ==
    [t \in plan_tasks |->
        IF t \in pending
        THEN [kind |-> "deadlock", deps |-> depends_on[t] \cap completed_ids]
        ELSE error[t]]

\* execute, line 60: the error of a blocked task carries task.depends_on
BlockedError(pending) ==
    [t \in plan_tasks |->
        IF t \in pending
        THEN [kind |-> "deadlock", deps |-> depends_on[t]]
        ELSE error[t]]

\* execute, lines 66-67 and 72-74: the done tasks of the batch are completed
Completed(batch) == completed_ids \cup {t \in batch : status[t] = "done"}

\* _build_dependency_context, lines 168-178: the section of one dependency
DepSection(dep) ==
    IF dep \notin plan_tasks THEN {}
    ELSE IF status[dep] = "done" /\ result[dep] = "Text"
         THEN {[dep |-> dep, tag |-> "OK", err |-> "none"]}
         ELSE IF status[dep] = "failed"
              THEN {[dep |-> dep, tag |-> "FAILED", err |-> error[dep].kind]}
              ELSE {}

\* _build_dependency_context: the sections of the previous tasks
build_dependency_context(t) == UNION {DepSection(dep) : dep \in depends_on[t]}

\* State of a plan as Planner.create_plan builds it: every task pending.
TQInit ==
    /\ \E n \in 0..MaxTasks : plan_tasks = 1..n
    /\ depends_on \in [plan_tasks -> SUBSET TaskIds]
    /\ status = [t \in plan_tasks |-> "pending"]
    /\ result = [t \in plan_tasks |-> "None"]
    /\ error = [t \in plan_tasks |-> NoError]
    /\ completed_ids = {}
    /\ ready = {}
    /\ tq_pc = "loop"
    /\ task_pc = [t \in plan_tasks |-> "idle"]
    /\ dep_ctx = [t \in plan_tasks |-> {}]
    /\ agent_runs = [t \in plan_tasks |-> 0]

\* execute, lines 48 and 76-87: the plan is complete, the loop ends
PlanComplete ==
    /\ tq_pc = "loop"
    /\ is_complete
    /\ tq_pc' = "done"
    /\ UNCHANGED <<plan_tasks, depends_on, status, result, error,
                   completed_ids, ready, task_pc, dep_ctx, agent_runs>>
    /\ TQFrame

\* execute, lines 51-61: nothing is ready; pending tasks are failed, break
Deadlock ==
    /\ tq_pc = "loop"
    /\ ~is_complete
    /\ get_ready(completed_ids) = {}
    /\ LET pending == get_pending IN
          /\ status' = (IF pending # {} THEN BlockedStatus(pending) ELSE status)
          /\ error' = (IF pending # {} THEN BlockedError(pending) ELSE error)
    /\ tq_pc' = "done"
    /\ UNCHANGED <<plan_tasks, depends_on, result, completed_ids, ready,
                   task_pc, dep_ctx, agent_runs>>
    /\ TQFrame

\* execute, lines 49 and 63-71: the ready tasks are launched (one task
\* awaited directly, several through asyncio.gather)
LaunchBatch ==
    /\ tq_pc = "loop"
    /\ ~is_complete
    /\ get_ready(completed_ids) # {}
    /\ ready' = get_ready(completed_ids)
    /\ task_pc' = [t \in plan_tasks |->
                      IF t \in ready' THEN "start" ELSE task_pc[t]]
    /\ tq_pc' = "batch"
    /\ UNCHANGED <<plan_tasks, depends_on, status, result, error,
                   completed_ids, dep_ctx, agent_runs>>
    /\ TQFrame

\* _run_task, lines 93-102: the agent is looked up; without one the task
\* fails at once, otherwise it becomes running and task.started is published
StartTask(t) ==
    /\ tq_pc = "batch"
    /\ t \in ready
    /\ task_pc[t] = "start"
    /\ \E available \in BOOLEAN :
          IF available
          THEN /\ status' = [status EXCEPT ![t] = "running"]
               /\ error' = error
               /\ task_pc' = [task_pc EXCEPT ![t] = "context"]
          ELSE /\ status' = [status EXCEPT ![t] = "failed"]
               /\ error' = [error EXCEPT ![t] = [kind |-> "no_agent", deps |-> {}]]
               /\ task_pc' = [task_pc EXCEPT ![t] = "returned"]
    /\ UNCHANGED <<plan_tasks, depends_on, result, completed_ids, ready,
                   tq_pc, dep_ctx, agent_runs>>
    /\ TQFrame

\* _run_task, lines 106-123: the context is built and agent.run is awaited
InvokeAgent(t) ==
    /\ tq_pc = "batch"
    /\ t \in ready
    /\ task_pc[t] = "context"
    /\ dep_ctx' = [dep_ctx EXCEPT ![t] = build_dependency_context(t)]
    /\ agent_runs' = [agent_runs EXCEPT ![t] = @ + 1]
    /\ task_pc' = [task_pc EXCEPT ![t] = "agent"]
    /\ UNCHANGED <<plan_tasks, depends_on, status, result, error,
                   completed_ids, ready, tq_pc>>
    /\ TQFrame

\* _run_task, lines 124-128: the agent returned success
TaskDone(t) ==
    /\ tq_pc = "batch"
    /\ t \in ready
    /\ task_pc[t] = "agent"
    /\ \E output \in {"Empty", "Text"} :
          result' = [result EXCEPT ![t] = output]
    /\ status' = [status EXCEPT ![t] = "done"]
    /\ task_pc' = [task_pc EXCEPT ![t] = "returned"]
    /\ UNCHANGED <<plan_tasks, depends_on, error, completed_ids, ready,
                   tq_pc, dep_ctx, agent_runs>>
    /\ TQFrame

\* _run_task, lines 129-138: the agent returned success=False, or raised
TaskFailed(t) ==
    /\ tq_pc = "batch"
    /\ t \in ready
    /\ task_pc[t] = "agent"
    /\ \E kind \in {"agent", "exception"} :
          error' = [error EXCEPT ![t] = [kind |-> kind, deps |-> {}]]
    /\ status' = [status EXCEPT ![t] = "failed"]
    /\ task_pc' = [task_pc EXCEPT ![t] = "returned"]
    /\ UNCHANGED <<plan_tasks, depends_on, result, completed_ids, ready,
                   tq_pc, dep_ctx, agent_runs>>
    /\ TQFrame

\* execute, lines 65-67 and 71-74: every _run_task of the batch returned
EndBatch ==
    /\ tq_pc = "batch"
    /\ \A t \in ready : task_pc[t] = "returned"
    /\ completed_ids' = Completed(ready)
    /\ tq_pc' = "loop"
    /\ UNCHANGED <<plan_tasks, depends_on, status, result, error, ready,
                   task_pc, dep_ctx, agent_runs>>
    /\ TQFrame

TQNext ==
    \/ PlanComplete
    \/ Deadlock
    \/ LaunchBatch
    \/ \E t \in TaskIds : StartTask(t)
    \/ \E t \in TaskIds : InvokeAgent(t)
    \/ \E t \in TaskIds : TaskDone(t)
    \/ \E t \in TaskIds : TaskFailed(t)
    \/ EndBatch

\* no plan is being executed
TQIdle ==
    /\ plan_tasks = {}
    /\ depends_on = <<>>
    /\ status = <<>>
    /\ result = <<>>
    /\ error = <<>>
    /\ completed_ids = {}
    /\ ready = {}
    /\ tq_pc = "done"
    /\ task_pc = <<>>
    /\ dep_ctx = <<>>
    /\ agent_runs = <<>>

(***************************************************************************)
(* core/agent.py: Agent.run, _complete_with_retry, _build_api_messages     *)
(***************************************************************************)
CallIds == {"call_a", "call_b"}
ToolNames == {"read_file"}

\* providers/base.py ToolCall (arguments left out: they do not steer run)
ToolCall == [id : CallIds, name : ToolNames]

\* what provider.complete can return: a final answer (content None, empty
\* or text, no tool calls) or a turn with tool calls (run does not read the
\* content of such a turn)
Responses ==
    [content : {"None", "", "text"}, tool_calls : {<<>>}]
    \cup [content : {"None"}, tool_calls : SeqsUpTo(ToolCall, MaxCalls) \ {<<>>}]

NoResponse == [content |-> "None", tool_calls |-> <<>>]
NoResult == [success |-> FALSE, output |-> "", tool_calls_made |-> 0,
             error |-> "not returned"]

\* run, lines 88-91: the system and user messages
InitialMessages ==
    << [role |-> "system", content |-> "prompt", tool_call_id |-> "None",
        name |-> "None", has_raw |-> FALSE, raw |-> <<>>],
       [role |-> "user", content |-> "task", tool_call_id |-> "None",
        name |-> "None", has_raw |-> FALSE, raw |-> <<>>] >>

\* run, lines 106-113: the serialized tool calls of a response
RawToolCalls(tcs) ==
    [k \in 1..Len(tcs) |->
        [id |-> tcs[k].id, type |-> "function",
         function |-> [name |-> tcs[k].name, arguments |-> "json"]]]

\* mutant of AssistantMessage: the raw tool calls are not attached
AssistantMessageBare(tcs) ==
    [role |-> "assistant", content |-> "None", tool_call_id |-> "None",
     name |-> "None", has_raw |-> FALSE, raw |-> <<>>]

\* run, lines 114-116: the assistant message that carries the tool calls
AssistantMessage(tcs) ==
    [role |-> "assistant", content |-> "None", tool_call_id |-> "None",
     name |-> "None", has_raw |-> TRUE, raw |-> RawToolCalls(tcs)]

\* run, lines 124-131: the tool-result message of one tool call
ToolMessage(tc) ==
    [role |-> "tool", content |-> "result", tool_call_id |-> tc.id,
     name |-> tc.name, has_raw |-> FALSE, raw |-> <<>>]

\* mutant of NextCall: the calls are taken from the end of the list
NextCallReversed(tcs, k) == tcs[Len(tcs) + 1 - k]

\* run, line 119: the k-th tool call of the turn
NextCall(tcs, k) == tcs[k]

\* _build_api_messages, lines 212-226: one message in API form
ApiMessage(m) ==
    IF m.has_raw
    THEN [role |-> "assistant", content |-> "None", tool_calls |-> m.raw]
    ELSE IF m.role = "tool"
         THEN [role |-> "tool", content |-> m.content,
               tool_call_id |-> m.tool_call_id, name |-> m.name]
         ELSE [role |-> m.role, content |-> m.content]

\* _build_api_messages
build_api_messages(ms) == [i \in 1..Len(ms) |-> ApiMessage(ms[i])]

\* mutant of MoreIterations: the loop runs once more
MoreIterationsOffByOne(it) == it <= MaxIterations

\* run, line 95: for iteration in range(self.max_iterations)
MoreIterations(it) == it < MaxIterations

\* run, line 136: response.content or ""
FinalContent(c) == IF c = "None" THEN "" ELSE c

\* run, line 120: tool_calls_count += 1
CountCall(n, k) == n + 1

\* what _complete_with_retry retries: HTTPStatusError with a 5xx status,
\* asyncio.TimeoutError, OSError / ConnectionError
TransientFailures == {"5xx", "timeout", "network"}

\* a backoff that does not double
backoff_constant(n) == 1

\* _complete_with_retry, line 205: asyncio.sleep(2 ** attempt)
backoff(n) == 2 ^ n

AgentInit ==
    /\ messages = InitialMessages
    /\ api_messages = <<>>
    /\ ag_pc = "loop"
    /\ iteration = 0
    /\ attempt = 0
    /\ sleeps = <<>>
    /\ response = NoResponse
    /\ tc_index = 0
    /\ tool_calls_count = 0
    /\ ag_result = NoResult
    /\ ag_exception = "None"
    /\ responses = <<>>
    /\ dispatched = <<>>
    /\ provider_calls = <<>>

\* no agent is running
AgentIdle ==
    /\ messages = <<>>
    /\ api_messages = <<>>
    /\ ag_pc = "idle"
    /\ iteration = 0
    /\ attempt = 0
    /\ sleeps = <<>>
    /\ response = NoResponse
    /\ tc_index = 0
    /\ tool_calls_count = 0
    /\ ag_result = NoResult
    /\ ag_exception = "None"
    /\ responses = <<>>
    /\ dispatched = <<>>
    /\ provider_calls = <<>>

\* run, lines 95-101: a new iteration builds the API messages and enters
\* _complete_with_retry
BeginIteration ==
    /\ ag_pc = "loop"
    /\ MoreIterations(iteration)
    /\ api_messages' = build_api_messages(messages)
    /\ attempt' = 0
    /\ sleeps' = <<>>
    /\ ag_pc' = "complete"
    /\ UNCHANGED <<messages, iteration, response, tc_index, tool_calls_count,
                   ag_result, responses, dispatched>>
    /\ UNCHANGED ag_exception
    /\ provider_calls' = <<>>
    /\ AgentFrame

\* run, lines 146-154: the iterations are used up
IterationsExhausted ==
    /\ ag_pc = "loop"
    /\ ~MoreIterations(iteration)
    /\ ag_result' = [success |-> FALSE, output |-> "",
                     tool_calls_made |-> tool_calls_count,
                     error |-> "max_iterations"]
    /\ ag_pc' = "returned"
    /\ UNCHANGED <<messages, api_messages, iteration, attempt, sleeps,
                   response, tc_index, tool_calls_count, responses, dispatched>>
    /\ UNCHANGED ag_exception
    /\ UNCHANGED provider_calls
    /\ AgentFrame

\* _complete_with_retry, line 172, then run, lines 104-116: the provider
\* answers with tool calls; the assistant message is stored
RespondWithToolCalls ==
    /\ ag_pc = "complete"
    /\ \E r \in Responses :
          /\ r.tool_calls # <<>>
          /\ response' = r
          /\ responses' = Append(responses, r)
          /\ messages' = Append(messages, AssistantMessage(r.tool_calls))
    /\ tc_index' = 1
    /\ ag_pc' = "tools"
    /\ UNCHANGED <<api_messages, iteration, attempt, sleeps, tool_calls_count,
                   ag_result, dispatched>>
    /\ UNCHANGED ag_exception
    /\ provider_calls' = Append(provider_calls, "ok")
    /\ AgentFrame

\* _complete_with_retry, line 172, then run, lines 135-144: the provider
\* answers without tool calls; run returns
RespondFinal ==
    /\ ag_pc = "complete"
    /\ \E r \in Responses :
          /\ r.tool_calls = <<>>
          /\ response' = r
          /\ responses' = Append(responses, r)
          /\ ag_result' = [success |-> TRUE, output |-> FinalContent(r.content),
                           tool_calls_made |-> tool_calls_count,
                           error |-> "None"]
    /\ ag_pc' = "returned"
    /\ UNCHANGED <<messages, api_messages, iteration, attempt, sleeps,
                   tc_index, tool_calls_count, dispatched>>
    /\ UNCHANGED ag_exception
    /\ provider_calls' = Append(provider_calls, "ok")
    /\ AgentFrame

\* _complete_with_retry, lines 177-189: HTTP status 4xx; RuntimeError is
\* raised, and run has no handler for it
ProviderPermanentError ==
    /\ ag_pc = "complete"
    /\ ag_pc' = "raised"
    /\ ag_exception' = "provider_permanent"
    /\ UNCHANGED <<messages, api_messages, iteration, attempt, sleeps,
                   response, tc_index, tool_calls_count, ag_result, responses,
                   dispatched>>
    /\ provider_calls' = Append(provider_calls, "4xx")
    /\ AgentFrame

\* _complete_with_retry, lines 191-205: HTTP 5xx, timeout or network error
\* with retries left; sleep 2 ** attempt, then the next attempt
ProviderTransientRetry ==
    /\ ag_pc = "complete"
    /\ attempt < max_retries
    /\ sleeps' = Append(sleeps, backoff(attempt))
    /\ attempt' = attempt + 1
    /\ UNCHANGED <<messages, api_messages, ag_pc, iteration, response,
                   tc_index, tool_calls_count, ag_result, responses,
                   dispatched>>
    /\ UNCHANGED ag_exception
    /\ \E failure \in TransientFailures :
        provider_calls' = Append(provider_calls, failure)
    /\ AgentFrame

\* _complete_with_retry, lines 191-207: transient failure on the last
\* attempt; last_error is raised, and run has no handler for it
ProviderTransientGiveUp ==
    /\ ag_pc = "complete"
    /\ attempt = max_retries
    /\ ag_pc' = "raised"
    /\ ag_exception' = "provider_transient"
    /\ UNCHANGED <<messages, api_messages, iteration, attempt, sleeps,
                   response, tc_index, tool_calls_count, ag_result, responses,
                   dispatched>>
    /\ \E failure \in TransientFailures :
        provider_calls' = Append(provider_calls, failure)
    /\ AgentFrame

\* run, lines 119-133: one tool call is counted, dispatched and answered;
\* after the last one the next iteration begins
DispatchToolCall ==
    /\ ag_pc = "tools"
    /\ LET tc == NextCall(response.tool_calls, tc_index) IN
          /\ tool_calls_count' = CountCall(tool_calls_count, tc_index)
          /\ dispatched' = Append(dispatched, tc)
          /\ messages' = Append(messages, ToolMessage(tc))
    /\ IF tc_index < Len(response.tool_calls)
       THEN /\ tc_index' = tc_index + 1
            /\ UNCHANGED <<ag_pc, iteration>>
       ELSE /\ tc_index' = 0
            /\ iteration' = iteration + 1
            /\ ag_pc' = "loop"
    /\ UNCHANGED <<api_messages, attempt, sleeps, response, ag_result,
                   responses>>
    /\ UNCHANGED ag_exception
    /\ UNCHANGED provider_calls
    /\ AgentFrame

AgentNext ==
    \/ BeginIteration
    \/ IterationsExhausted
    \/ RespondWithToolCalls
    \/ RespondFinal
    \/ ProviderPermanentError
    \/ ProviderTransientRetry
    \/ ProviderTransientGiveUp
    \/ DispatchToolCall

(***************************************************************************)
(* core/improvement_loop.py and core/autonomous_loop.py: the two           *)
(* background loops, each one asyncio task; a step runs from one await to  *)
(* the next.                                                               *)
(***************************************************************************)
\* the inputs that ImprovementLoop._should_run reads
GateInputs ==
    [enabled : BOOLEAN, interval_elapsed : BOOLEAN, cycles_below_cap : BOOLEAN,
     tokens_below_budget : BOOLEAN, actionable_errors : BOOLEAN,
     user_idle : BOOLEAN]

\* ImprovementLoop._should_run, lines 133-169: the checks before the
\* branch check
gate_open(g) ==
    /\ g.enabled
    /\ g.interval_elapsed
    /\ g.cycles_below_cap
    /\ g.tokens_below_budget
    /\ (g.actionable_errors \/ g.user_idle)

\* AutonomousLoop._compute_objective_interval
compute_objective_interval(project_count) ==
    IF project_count <= 0 THEN 0
    ELSE IF project_count <= 6 THEN 60
    ELSE IF project_count <= 14 THEN 30
    ELSE IF project_count <= 25 THEN 15
    ELSE IF project_count <= 40 THEN 10
    ELSE 5

\* numbers of projects with an objective, one or two in every tier
ProjectCounts == {0, 1, 6, 7, 14, 15, 25, 26, 40, 41}

\* what get_due_items can return: reminders and scheduled tasks
DueLists == SeqsUpTo({"reminder", "task"}, MaxDue)

\* number of reminders in a list of due items
RECURSIVE Reminders(_)
Reminders(items) ==
    IF items = <<>> THEN 0
    ELSE (IF items[1] = "reminder" THEN 1 ELSE 0) + Reminders(Tail(items))

\* Orchestrator.__init__, ImprovementLoop.__init__, AutonomousLoop.__init__,
\* after the loops were started
LoopsInit ==
    /\ has_db \in BOOLEAN
    /\ improvement_running = FALSE
    /\ pending_reminders = 0
    /\ workspace = "default"
    /\ git_branch = "main"
    /\ imp_pc = "sleep"
    /\ imp_running = FALSE
    /\ cycle_count = 0
    /\ auto_pc = "sleep"
    /\ auto_running = FALSE
    /\ due_items = <<>>
    /\ objective_interval = 0

\* the background loops are not started
LoopsIdle ==
    /\ has_db = FALSE
    /\ improvement_running = FALSE
    /\ pending_reminders = 0
    /\ workspace = "default"
    /\ git_branch = "main"
    /\ imp_pc = "stopped"
    /\ imp_running = FALSE
    /\ cycle_count = 0
    /\ auto_pc = "stopped"
    /\ auto_running = FALSE
    /\ due_items = <<>>
    /\ objective_interval = 0

\* ImprovementLoop._loop, lines 116-118, with _should_run returning False:
\* a check fails, or the repository is on an improve/ branch, which
\* _git_checkout_main tries to leave (its failure is swallowed)
ImprovementSkips ==
    /\ imp_pc = "sleep"
    /\ \E g \in GateInputs :
          IF ~gate_open(g)
          THEN git_branch' = git_branch
          ELSE /\ git_branch = "improve"
               /\ git_branch' \in {"main", "improve"}
    /\ UNCHANGED <<has_db, improvement_running, pending_reminders, workspace,
                   imp_pc, imp_running, cycle_count, auto_pc, auto_running,
                   due_items, objective_interval>>
    /\ LoopsFrame

\* ImprovementLoop._loop, lines 117-122, and _run_cycle, lines 208-224:
\* _should_run returned True; the flags are set, the workspace is moved to
\* the repository root and the improve branch is created (or git fails)
ImprovementStarts ==
    /\ imp_pc = "sleep"
    /\ cycle_count < MaxCycles
    /\ \E g \in GateInputs : gate_open(g)
    /\ git_branch = "main"
    /\ imp_running' = TRUE
    /\ improvement_running' = TRUE
    /\ workspace' = "repo"
    /\ cycle_count' = cycle_count + 1
    /\ git_branch' \in {"main", "improve"}
    /\ imp_pc' = "cycle"
    /\ UNCHANGED <<has_db, pending_reminders, auto_pc, auto_running,
                   due_items, objective_interval>>
    /\ LoopsFrame

\* _run_cycle, lines 256-327, and _loop, lines 123-125: the cycle ends
\* (merged, no changes, error or timeout); _git_checkout_main tries to go
\* back to the mainline and the flags are cleared
ImprovementEnds ==
    /\ imp_pc = "cycle"
    /\ git_branch' \in {"main", git_branch}
    /\ imp_running' = FALSE
    /\ improvement_running' = FALSE
    /\ imp_pc' = "sleep"
    /\ UNCHANGED <<has_db, pending_reminders, workspace, cycle_count,
                   auto_pc, auto_running, due_items, objective_interval>>
    /\ LoopsFrame

\* AutonomousLoop._loop, lines 199-206: the tick is skipped because an
\* improvement cycle is running or there is no store
TickSkipped ==
    /\ auto_pc = "sleep"
    /\ improvement_running \/ ~has_db
    /\ UNCHANGED vars_lp
    /\ LoopsFrame

\* AutonomousLoop._loop, lines 199-214, and _process_scheduled_items,
\* lines 126-131: the tick starts, the workspace is reset and the due
\* items are fetched
TickStarts ==
    /\ auto_pc = "sleep"
    /\ ~improvement_running
    /\ has_db
    /\ workspace' = "default"
    /\ \E items \in DueLists :
          /\ pending_reminders + Reminders(items) <= MaxReminders
          /\ due_items' = items
    /\ auto_pc' = "items"
    /\ UNCHANGED <<has_db, improvement_running, pending_reminders, git_branch,
                   imp_pc, imp_running, cycle_count, auto_running,
                   objective_interval>>
    /\ LoopsFrame

\* _process_scheduled_items, lines 137-144 and 160-177: a reminder is
\* fired and its item updated
ReminderFires ==
    /\ auto_pc = "items"
    /\ due_items # <<>>
    /\ Head(due_items) = "reminder"
    /\ pending_reminders' = pending_reminders + 1
    /\ due_items' = Tail(due_items)
    /\ UNCHANGED <<has_db, improvement_running, workspace, git_branch, imp_pc,
                   imp_running, cycle_count, auto_pc, auto_running,
                   objective_interval>>
    /\ LoopsFrame

\* _process_scheduled_items, lines 145-154: a scheduled task is handed to
\* orch.run(intent="autonomous") and awaited
ScheduledTaskStarts ==
    /\ auto_pc = "items"
    /\ due_items # <<>>
    /\ Head(due_items) = "task"
    /\ auto_pc' = "item_task"
    /\ UNCHANGED <<has_db, improvement_running, pending_reminders, workspace,
                   git_branch, imp_pc, imp_running, cycle_count, auto_running,
                   due_items, objective_interval>>
    /\ LoopsFrame

\* _process_scheduled_items, lines 155-177: the run returned, timed out or
\* raised; the item is updated
ScheduledTaskEnds ==
    /\ auto_pc = "item_task"
    /\ due_items' = Tail(due_items)
    /\ auto_pc' = "items"
    /\ UNCHANGED <<has_db, improvement_running, pending_reminders, workspace,
                   git_branch, imp_pc, imp_running, cycle_count, auto_running,
                   objective_interval>>
    /\ LoopsFrame

\* AutonomousLoop._loop, lines 217-240: after the due items, the tick ends
\* without an objective: no project, interval not elapsed, or none eligible
ObjectiveSkipped ==
    /\ auto_pc = "items"
    /\ due_items = <<>>
    /\ \E project_count \in ProjectCounts, elapsed \in BOOLEAN, eligible \in BOOLEAN :
          /\ objective_interval' = compute_objective_interval(project_count)
          /\ \/ compute_objective_interval(project_count) <= 0
             \/ ~elapsed
             \/ ~eligible
    /\ auto_pc' = "sleep"
    /\ UNCHANGED <<has_db, improvement_running, pending_reminders, workspace,
                   git_branch, imp_pc, imp_running, cycle_count, auto_running,
                   due_items>>
    /\ LoopsFrame

\* AutonomousLoop._loop, lines 217-252: a project is chosen, the workspace
\* is moved to it and orch.run(intent="autonomous") is awaited
ObjectiveStarts ==
    /\ auto_pc = "items"
    /\ due_items = <<>>
    /\ \E project_count \in ProjectCounts :
          /\ compute_objective_interval(project_count) > 0
          /\ objective_interval' = compute_objective_interval(project_count)
    /\ workspace' = "project"
    /\ auto_running' = TRUE
    /\ auto_pc' = "objective"
    /\ UNCHANGED <<has_db, improvement_running, pending_reminders, git_branch,
                   imp_pc, imp_running, cycle_count, due_items>>
    /\ LoopsFrame

\* AutonomousLoop._loop, lines 255-266: the objective run returned, timed
\* out or raised
ObjectiveEnds ==
    /\ auto_pc = "objective"
    /\ auto_running' = FALSE
    /\ auto_pc' = "sleep"
    /\ UNCHANGED <<has_db, improvement_running, pending_reminders, workspace,
                   git_branch, imp_pc, imp_running, cycle_count, due_items,
                   objective_interval>>
    /\ LoopsFrame

\* the except clauses of a loop that catch every exception
loop_handler_all(exc) == "sleep"

\* ImprovementLoop._loop, lines 126-130, and AutonomousLoop._loop, lines
\* 268-272, the except clauses in their order: asyncio.CancelledError is
\* raised again and ends the task; an Exception is logged and the loop goes
\* on after 60 s.  CancelledError derives from BaseException, so that no
\* "except Exception" of the cycle or of the tick catches it
loop_handler(exc) == IF exc = "CancelledError" THEN "stopped" ELSE "sleep"

\* ImprovementLoop.stop, lines 74-75: the task is cancelled while it is
\* suspended in a sleep or in the awaits of a cycle; its next step is the
\* CancelledError raised at that await
ImprovementStopCalled ==
    /\ imp_pc \in {"sleep", "cycle"}
    /\ imp_pc' = "cancelling"
    /\ UNCHANGED <<has_db, improvement_running, pending_reminders, workspace,
                   git_branch, imp_running, cycle_count, auto_pc,
                   auto_running, due_items, objective_interval>>
    /\ LoopsFrame

\* the CancelledError travels through _run_cycle, lines 297-303 (the
\* finally tries to go back to the mainline), and _loop, lines 123-127 (the
\* flags are cleared, the exception is raised again)
ImprovementCancelled ==
    /\ imp_pc = "cancelling"
    /\ git_branch' \in (IF imp_running THEN {"main", git_branch}
                        ELSE {git_branch})
    /\ imp_running' = FALSE
    /\ improvement_running' = FALSE
    /\ imp_pc' = loop_handler("CancelledError")
    /\ UNCHANGED <<has_db, pending_reminders, workspace, cycle_count,
                   auto_pc, auto_running, due_items, objective_interval>>
    /\ LoopsFrame

\* AutonomousLoop.stop, lines 48-49: the task is cancelled while it is
\* suspended in the sleep, in a store call of the due items or in a run
AutonomousStopCalled ==
    /\ auto_pc \in {"sleep", "items", "item_task", "objective"}
    /\ auto_pc' = "cancelling"
    /\ UNCHANGED <<has_db, improvement_running, pending_reminders, workspace,
                   git_branch, imp_pc, imp_running, cycle_count,
                   auto_running, due_items, objective_interval>>
    /\ LoopsFrame

\* the CancelledError travels through _process_scheduled_items, lines
\* 155-158 and 178, or through lines 257-264 (the finally clears _running),
\* and _loop, lines 268-269
AutonomousCancelled ==
    /\ auto_pc = "cancelling"
    /\ auto_running' = FALSE
    /\ auto_pc' = loop_handler("CancelledError")
    /\ UNCHANGED <<has_db, improvement_running, pending_reminders, workspace,
                   git_branch, imp_pc, imp_running, cycle_count, due_items,
                   objective_interval>>
    /\ LoopsFrame

LoopsNext ==
    \/ ImprovementSkips
    \/ ImprovementStarts
    \/ ImprovementEnds
    \/ TickSkipped
    \/ TickStarts
    \/ ReminderFires
    \/ ScheduledTaskStarts
    \/ ScheduledTaskEnds
    \/ ObjectiveSkipped
    \/ ObjectiveStarts
    \/ ObjectiveEnds
    \/ ImprovementStopCalled
    \/ ImprovementCancelled
    \/ AutonomousStopCalled
    \/ AutonomousCancelled

(***************************************************************************)
(* tools/filesystem.py: set_workspace and _safe_path.  A string is the     *)
(* sequence of its characters and a resolved path the sequence of its      *)
(* components; the workspace holds no symbolic links, so that              *)
(* Path.resolve only removes "." and ".." components.                      *)
(***************************************************************************)
Dot == <<".">>
DotDot == <<".", ".">>
\* the names a directory or a file can have
Names == {<<"w">>, <<"w", "x">>}

\* the path arguments: absolute or relative, any mix of names, "." and ".."
PathArgs ==
    [absolute : BOOLEAN, parts : SeqsUpTo(Names \cup {Dot, DotDot}, MaxPathLen)]

\* the directories set_workspace can be handed: "/", "/w", "/wx/w"
Roots == {<<>>, <<<<"w">>>>, <<<<"w", "x">>, <<"w">>>>}

RECURSIVE resolve(_, _)
\* Path.resolve: the components of acc followed by parts, "." dropped and
\* ".." removing the component before it (the parent of "/" is "/")
resolve(acc, parts) ==
    IF parts = <<>> THEN acc
    ELSE LET h == Head(parts) IN
         resolve(IF h = DotDot
                     THEN IF acc = <<>> THEN <<>>
                          ELSE SubSeq(acc, 1, Len(acc) - 1)
                 ELSE IF h = Dot THEN acc
                 ELSE Append(acc, h),
                 Tail(parts))

RECURSIVE path_str(_)
\* str(path) of a resolved path: "/" for the root, else "/a/b/c"
path_str(path) ==
    IF path = <<>> THEN <<"/">>
    ELSE IF Len(path) = 1 THEN <<"/">> \o path[1]
    ELSE path_str(SubSeq(path, 1, Len(path) - 1)) \o <<"/">> \o path[Len(path)]

\* str.startswith
startswith(s, prefix) ==
    /\ Len(prefix) <= Len(s)
    /\ SubSeq(s, 1, Len(prefix)) = prefix

\* local base of _safe_path
safe_path_base == resolve(<<>>, fs_root)

\* local target of _safe_path: base / relative_path, resolved; an absolute
\* argument replaces base
safe_path_target(p) ==
    IF p.absolute THEN resolve(<<>>, p.parts)
    ELSE resolve(safe_path_base, p.parts)

\* the test of _safe_path: the path is returned, else ValueError is raised
safe_path_passes(p) ==
    startswith(path_str(safe_path_target(p)), path_str(safe_path_base))

FSInit ==
    /\ fs_root \in Roots
    /\ fs_path = [absolute |-> FALSE, parts |-> <<>>]
    /\ fs_base = <<>>
    /\ fs_target = <<>>
    /\ fs_outcome = "none"
    /\ fs_touched = {}

FSIdle ==
    /\ fs_root = <<>>
    /\ fs_path = [absolute |-> FALSE, parts |-> <<>>]
    /\ fs_base = <<>>
    /\ fs_target = <<>>
    /\ fs_outcome = "none"
    /\ fs_touched = {}

FSFrame == UNCHANGED <<vars_tq, vars_ag, vars_lp, vars_sc, vars_ec, vars_pl, vars_si, vars_rg, vars_gt, vars_bus,
                vars_rn, vars_ob, vars_cy, vars_sy, vars_du>>

\* set_workspace(path)
SetWorkspace ==
    /\ \E root \in Roots :
        /\ root # fs_root
        /\ fs_root' = resolve(<<>>, root)
    /\ UNCHANGED <<fs_path, fs_base, fs_target, fs_outcome, fs_touched>>
    /\ FSFrame

\* a file tool is called and _safe_path returns: the handler goes on to
\* read, write, list, create or delete the target
FileToolProceeds ==
    /\ \E p \in PathArgs :
        /\ safe_path_passes(p)
        /\ fs_path' = p
        /\ fs_base' = safe_path_base
        /\ fs_target' = safe_path_target(p)
        /\ fs_touched' = {safe_path_target(p)}
    /\ fs_outcome' = "accepted"
    /\ UNCHANGED fs_root
    /\ FSFrame

\* a file tool is called and _safe_path raises ValueError, which leaves
\* the handler before it touches anything
FileToolRejected ==
    /\ \E p \in PathArgs :
        /\ ~safe_path_passes(p)
        /\ fs_path' = p
        /\ fs_base' = safe_path_base
        /\ fs_target' = safe_path_target(p)
    /\ fs_outcome' = "ValueError"
    /\ fs_touched' = {}
    /\ UNCHANGED fs_root
    /\ FSFrame

FSNext ==
    \/ SetWorkspace
    \/ FileToolProceeds
    \/ FileToolRejected

(***************************************************************************)
(* core/scheduler.py: to_iso, parse_iso, compute_next_run and              *)
(* next_aligned_tick.  A datetime is the record of its fields, all in UTC; *)
(* its sub-second part counts clock ticks.  An ISO text is the record of   *)
(* the fields it spells out: the text written by to_iso has no sub-second  *)
(* part.                                                                   *)
(***************************************************************************)
\* Python's None
None == [none |-> TRUE]

IsLeap(y) == (y % 4 = 0 /\ y % 100 # 0) \/ y % 400 = 0

DaysInMonth(y, m) ==
    IF m = 2 THEN (IF IsLeap(y) THEN 29 ELSE 28)
    ELSE IF m \in {4, 6, 9, 11} THEN 30 ELSE 31

DaysInYear(y) == IF IsLeap(y) THEN 366 ELSE 365

RECURSIVE DaysBeforeMonth(_, _)
DaysBeforeMonth(y, m) ==
    IF m = 1 THEN 0 ELSE DaysBeforeMonth(y, m - 1) + DaysInMonth(y, m - 1)

RECURSIVE DaysBeforeYear(_)
\* days from 2024-01-01, a Monday, to the first day of year y
DaysBeforeYear(y) ==
    IF y = 2024 THEN 0 ELSE DaysBeforeYear(y - 1) + DaysInYear(y - 1)

\* datetime.toordinal, counted from 2024-01-01
toordinal(dt) ==
    DaysBeforeYear(dt.year) + DaysBeforeMonth(dt.year, dt.month) + dt.day - 1

\* datetime.weekday: Monday is 0
weekday(dt) == toordinal(dt) % 7

TicksPerMinute == 60 * TicksPerSecond
TicksPerDay == 24 * 60 * TicksPerMinute

\* the position of a datetime on the time line, in ticks
Ticks(dt) ==
    ((toordinal(dt) * 24 + dt.hour) * 60 + dt.minute) * TicksPerMinute
        + dt.second * TicksPerSecond + dt.sub

RECURSIVE YearOfDay(_, _)
YearOfDay(days, y) ==
    IF days < DaysInYear(y) THEN [year |-> y, rest |-> days]
    ELSE YearOfDay(days - DaysInYear(y), y + 1)

RECURSIVE MonthOfDay(_, _, _)
MonthOfDay(days, y, m) ==
    IF days < DaysInMonth(y, m) THEN [month |-> m, rest |-> days]
    ELSE MonthOfDay(days - DaysInMonth(y, m), y, m + 1)

\* the datetime at a position of the time line
FromTicks(n) ==
    LET days == n \div TicksPerDay
        inday == n % TicksPerDay
        yr == YearOfDay(days, 2024)
        mo == MonthOfDay(yr.rest, yr.year, 1)
    IN  [year |-> yr.year, month |-> mo.month, day |-> mo.rest + 1,
         hour |-> inday \div (60 * TicksPerMinute),
         minute |-> (inday \div TicksPerMinute) % 60,
         second |-> (inday \div TicksPerSecond) % 60,
         sub |-> inday % TicksPerSecond]

\* datetime + timedelta
plus(dt, ticks) == FromTicks(Ticks(dt) + ticks)

\* to_iso: strftime("%Y-%m-%dT%H:%M:%SZ") writes no sub-second part
to_iso(dt) ==
    [year |-> dt.year, month |-> dt.month, day |-> dt.day,
     hour |-> dt.hour, minute |-> dt.minute, second |-> dt.second]

\* parse_iso: a text without a sub-second part is read with part 0
parse_iso(s) ==
    [year |-> s.year, month |-> s.month, day |-> s.day,
     hour |-> s.hour, minute |-> s.minute, second |-> s.second,
     sub |-> IF "sub" \in DOMAIN s THEN s.sub ELSE 0]

\* after.replace(hour=h, minute=m, second=0, microsecond=0)
at_time(dt, h, m) ==
    [dt EXCEPT !.hour = h, !.minute = m, !.second = 0, !.sub = 0]

\* compute_next_run(spec, after), for a spec parse_schedule accepts
compute_next_run(spec, after) ==
    IF spec.type = "once" THEN
        LET target == parse_iso(spec.at) IN
        IF Ticks(target) > Ticks(after) THEN to_iso(target) ELSE None
    ELSE IF spec.type = "interval" THEN
        to_iso(plus(after, spec.ticks))
    ELSE IF spec.type = "daily" THEN
        LET candidate == at_time(after, spec.h, spec.m) IN
        IF Ticks(candidate) <= Ticks(after)
            THEN to_iso(plus(candidate, TicksPerDay))
            ELSE to_iso(candidate)
    ELSE IF spec.type = "weekly" THEN
        LET days_ahead == (spec.day - weekday(after)) % 7
            candidate == plus(at_time(after, spec.h, spec.m),
                              days_ahead * TicksPerDay)
        IN  IF Ticks(candidate) <= Ticks(after)
                THEN to_iso(plus(candidate, 7 * TicksPerDay))
                ELSE to_iso(candidate)
    ELSE IF spec.type = "monthly" THEN
        LET candidate ==
                [at_time(after, spec.h, spec.m) EXCEPT !.day = spec.day_of_month]
        IN  IF Ticks(candidate) <= Ticks(after)
                THEN IF after.month = 12
                         THEN to_iso([candidate EXCEPT !.year = after.year + 1,
                                                       !.month = 1])
                         ELSE to_iso([candidate EXCEPT !.month = after.month + 1])
                ELSE to_iso(candidate)
    ELSE None

\* mutant of next_slot: the slot the minute is in
next_slot_floor(minute, tick_minutes) == (minute \div tick_minutes) * tick_minutes

\* local next_slot of next_aligned_tick
next_slot(minute, tick_minutes) ==
    ((minute \div tick_minutes) + 1) * tick_minutes

\* next_aligned_tick(tick_minutes, now)
next_aligned_tick(tick_minutes, now) ==
    LET slot == next_slot(now.minute, tick_minutes) IN
    IF slot >= 60
        THEN LET base == plus([now EXCEPT !.minute = 0, !.second = 0, !.sub = 0],
                              60 * TicksPerMinute)
             IN  plus(base, (slot - 60) * TicksPerMinute)
        ELSE [now EXCEPT !.minute = slot, !.second = 0, !.sub = 0]

\* the instants tried as after / now: month starts and ends, a leap day,
\* the ends of the day, of the hour and of the minute, every sub-second part
Instants ==
    {dt \in [year : {2024}, month : {1, 2, 12}, day : {1, 15, 20, 29, 31},
             hour : {0, 11, 23}, minute : {0, 30, 59}, second : {0, 59},
             sub : 0..(TicksPerSecond - 1)] :
        dt.day <= DaysInMonth(dt.year, dt.month)}

\* the times of day "HH:MM" tried in daily, weekly and monthly specs
SpecTimes == {[h |-> 0, m |-> 0], [h |-> 10, m |-> 0], [h |-> 23, m |-> 59]}

\* the texts tried as the at of a once spec, written with a sub-second part
AtTexts == {dt \in Instants : dt.day = 15 /\ dt.hour = 11 /\ dt.minute = 30}

\* the schedule specs parse_schedule accepts; the minutes of an interval
\* spec (int or float > 0) are given by the ticks of timedelta(minutes=minutes)
Schedules ==
    {[type |-> "once", at |-> a] : a \in AtTexts}
    \cup {[type |-> "interval", ticks |-> n] :
            n \in {1, TicksPerSecond, TicksPerMinute, TicksPerDay}}
    \cup {[type |-> "daily", h |-> t.h, m |-> t.m] : t \in SpecTimes}
    \cup {[type |-> "weekly", day |-> d, h |-> t.h, m |-> t.m] :
            d \in 0..6, t \in SpecTimes}
    \cup {[type |-> "monthly", day_of_month |-> d, h |-> t.h, m |-> t.m] :
            d \in {1, 15, 28}, t \in SpecTimes}

\* the tick periods: the k in 1..59 that divide 60
TickPeriods == {k \in 1..59 : 60 % k = 0}

SchedInit ==
    /\ sc_after \in Instants
    /\ sc_spec = None
    /\ sc_next_run = None
    /\ sc_tick_minutes = 0
    /\ sc_tick = None
    /\ sc_pc = "start"

SchedIdle ==
    /\ sc_after = FromTicks(0)
    /\ sc_spec = None
    /\ sc_next_run = None
    /\ sc_tick_minutes = 0
    /\ sc_tick = None
    /\ sc_pc = "idle"

SchedFrame == UNCHANGED <<vars_tq, vars_ag, vars_lp, vars_fs, vars_ec, vars_pl, vars_si, vars_rg, vars_gt, vars_bus,
                vars_rn, vars_ob, vars_cy, vars_sy, vars_du>>

\* compute_next_run(spec, after) is called
ComputeNextRun ==
    /\ sc_pc = "start"
    /\ \E spec \in Schedules :
        /\ sc_spec' = spec
        /\ sc_next_run' = compute_next_run(spec, sc_after)
    /\ sc_pc' = "computed"
    /\ UNCHANGED <<sc_after, sc_tick_minutes, sc_tick>>
    /\ SchedFrame

\* next_aligned_tick(tick_minutes, now) is called
NextAlignedTick ==
    /\ sc_pc = "start"
    /\ \E k \in TickPeriods :
        /\ sc_tick_minutes' = k
        /\ sc_tick' = next_aligned_tick(k, sc_after)
    /\ sc_pc' = "aligned"
    /\ UNCHANGED <<sc_after, sc_spec, sc_next_run>>
    /\ SchedFrame

SchedNext ==
    \/ ComputeNextRun
    \/ NextAlignedTick

(***************************************************************************)
(* core/error_collector.py: ErrorCollector, the logging handler attached   *)
(* to the "bbclaw" logger.  An ErrorRecord object is named by its position *)
(* in ec_records; the ring and the dedup dictionary refer to the objects   *)
(* by that name.  The field absorbed of a record is history: the calls of  *)
(* emit the record accounts for.                                           *)
(***************************************************************************)
\* the loggers whose ERROR records reach the handler
LoggerNames == {"bbclaw", "bbclaw.core.agent", "bbclaw.core.improvement_loop"}

\* the log records emitted
LogRecords ==
    {[name |-> "bbclaw.core.agent", msg |-> "boom"],
     [name |-> "bbclaw.core.agent", msg |-> "bang"],
     [name |-> "bbclaw.core.improvement_loop", msg |-> "boom"],
     [name |-> "bbclaw", msg |-> "boom"]}

\* the seconds that pass between two calls
Delays == {0, DEDUP_WINDOW_S - 1, DEDUP_WINDOW_S}

\* emit, lines 44-49: only the records of the loggers under "bbclaw." other
\* than the improvement loop's are kept
is_captured(name) ==
    /\ name \in LoggerNames \ {"bbclaw"}
    /\ name # "bbclaw.core.improvement_loop"

\* local dedup_key of emit
dedup_key(record) == <<record.name, record.msg>>

\* mutant of is_duplicate: the window ends one second early
is_duplicate_short(key, now) ==
    /\ key \in DOMAIN ec_dedup_keys
    /\ ~ec_records[ec_dedup_keys[key]].resolved
    /\ (now - ec_records[ec_dedup_keys[key]].timestamp) < DEDUP_WINDOW_S - 1

\* emit, lines 61-62: the same error occurred within the window
is_duplicate(key, now) ==
    /\ key \in DOMAIN ec_dedup_keys
    /\ ~ec_records[ec_dedup_keys[key]].resolved
    /\ (now - ec_records[ec_dedup_keys[key]].timestamp) < DEDUP_WINDOW_S

\* deque(maxlen=_MAX_ERRORS).append
ring_append(q, x) ==
    IF Len(q) = MAX_ERRORS THEN Append(Tail(q), x) ELSE Append(q, x)

\* emit, lines 78-80: the dictionary without its stale keys
without_stale(keys, records, now) ==
    [k \in {j \in DOMAIN keys :
                ~((now - records[keys[j]].timestamp) > DEDUP_WINDOW_S * 2)}
        |-> keys[k]]

CollectorInit ==
    /\ ec_now = 0
    /\ ec_records = <<>>
    /\ ec_errors = <<>>
    /\ ec_dedup_keys = <<>>
    /\ ec_log = <<>>

CollectorIdle ==
    /\ ec_now = 0
    /\ ec_records = <<>>
    /\ ec_errors = <<>>
    /\ ec_dedup_keys = <<>>
    /\ ec_log = <<>>

\* the ErrorRecord that emit builds for a log record (lines 67-73)
new_record(record, now, absorbed) ==
    [logger_name |-> record.name, message |-> record.msg,
     timestamp |-> now, count |-> 1, resolved |-> FALSE,
     absorbed |-> absorbed]

\* the i-th log record of a burst of errors: the first is "boom", the
\* others have messages of their own
burst_record(i) ==
    [name |-> "bbclaw.core.agent",
     msg |-> IF i = 1 THEN "boom" ELSE ToString(i)]

\* the ring after the records 1..n were appended to it (line 74): a
\* deque(maxlen=_MAX_ERRORS) holds the last _MAX_ERRORS of them
ring_after(n) ==
    LET kept == IF n < MAX_ERRORS THEN n ELSE MAX_ERRORS
    IN [i \in 1..kept |-> n - kept + i]

\* the collector after emit was called, within one second, with the first
\* n records of a burst (lines 67-80 applied n times): every call builds a
\* record, appends it to the ring and enters it under its key
after_burst(n) ==
    LET records == [i \in 1..n |-> new_record(burst_record(i), 0, {})]
    IN [records |-> records,
        errors |-> ring_after(n),
        dedup_keys |->
            without_stale(
                [k \in {dedup_key(burst_record(i)) : i \in 1..n} |->
                    CHOOSE i \in 1..n : dedup_key(burst_record(i)) = k],
                records, 0)]

\* the collector when a burst of _MAX_ERRORS different errors has filled
\* the ring
CollectorFullInit ==
    /\ ec_now = 0
    /\ ec_records = after_burst(MAX_ERRORS).records
    /\ ec_errors = after_burst(MAX_ERRORS).errors
    /\ ec_dedup_keys = after_burst(MAX_ERRORS).dedup_keys
    /\ ec_log = <<>>

\* the ErrorRecord objects the ring holds
InRing == {ec_errors[n] : n \in DOMAIN ec_errors}

CollectorFrame == UNCHANGED <<vars_tq, vars_ag, vars_lp, vars_fs, vars_sc, vars_pl, vars_si, vars_rg, vars_gt, vars_bus,
                vars_rn, vars_ob, vars_cy, vars_sy, vars_du>>

\* what the history keeps of a call of emit
EmitEvent(record, now) ==
    [kind |-> "emit", name |-> record.name, msg |-> record.msg, time |-> now]

\* emit returns at lines 46 or 49: the record is not one of those kept
EmitIgnored ==
    /\ Len(ec_log) < MaxEvents
    /\ \E record \in LogRecords, d \in Delays :
        /\ ~is_captured(record.name)
        /\ ec_now' = ec_now + d
        /\ ec_log' = Append(ec_log, EmitEvent(record, ec_now + d))
    /\ UNCHANGED <<ec_records, ec_errors, ec_dedup_keys>>
    /\ CollectorFrame

\* emit returns at line 65: the existing record counts one more
EmitDeduplicated ==
    /\ Len(ec_log) < MaxEvents
    /\ \E record \in LogRecords, d \in Delays :
        LET now == ec_now + d
            key == dedup_key(record)
        IN  /\ is_captured(record.name)
            /\ is_duplicate(key, now)
            /\ ec_now' = now
            /\ ec_records' =
                   [ec_records EXCEPT ![ec_dedup_keys[key]] =
                       [@ EXCEPT !.count = @ + 1,
                                 !.timestamp = now,
                                 !.absorbed = @ \cup {Len(ec_log) + 1}]]
            /\ ec_log' = Append(ec_log, EmitEvent(record, now))
    /\ UNCHANGED <<ec_errors, ec_dedup_keys>>
    /\ CollectorFrame

\* emit, lines 67-80: a new ErrorRecord is appended to the ring
EmitAppends ==
    /\ Len(ec_log) < MaxEvents
    /\ \E record \in LogRecords, d \in Delays :
        LET now == ec_now + d
            key == dedup_key(record)
            id == Len(ec_records) + 1
            rec == [logger_name |-> record.name, message |-> record.msg,
                    timestamp |-> now, count |-> 1, resolved |-> FALSE,
                    absorbed |-> {Len(ec_log) + 1}]
        IN  /\ is_captured(record.name)
            /\ ~is_duplicate(key, now)
            /\ ec_now' = now
            /\ ec_records' = Append(ec_records, rec)
            /\ ec_errors' = ring_append(ec_errors, id)
            /\ ec_dedup_keys' =
                   without_stale(
                       [k \in DOMAIN ec_dedup_keys \cup {key} |->
                           IF k = key THEN id ELSE ec_dedup_keys[k]],
                       Append(ec_records, rec), now)
            /\ ec_log' = Append(ec_log, EmitEvent(record, now))
    /\ CollectorFrame

\* mark_all_resolved, called by the improvement loop after a cycle
MarkAllResolved ==
    /\ Len(ec_log) < MaxEvents
    /\ \E d \in Delays :
        /\ ec_now' = ec_now + d
        /\ ec_log' = Append(ec_log, [kind |-> "resolve", time |-> ec_now + d])
    /\ ec_records' =
           [i \in DOMAIN ec_records |->
               IF i \in {ec_errors[n] : n \in DOMAIN ec_errors}
                   THEN [ec_records[i] EXCEPT !.resolved = TRUE]
                   ELSE ec_records[i]]
    /\ UNCHANGED <<ec_errors, ec_dedup_keys>>
    /\ CollectorFrame

CollectorNext ==
    \/ EmitIgnored
    \/ EmitDeduplicated
    \/ EmitAppends
    \/ MarkAllResolved

(***************************************************************************)
(* core/planner.py: Planner.create_plan.  A provider reply is given by the *)
(* JSON value its text spells once the code fences are stripped: no JSON   *)
(* at all, a scalar, an array, or an object with its "tasks" member.       *)
(***************************************************************************)
\* the keys create_plan reads with t[...]
RequiredKeys == {"id", "name", "description"}

\* the elements a "tasks" list can hold: an object with some of the
\* required keys (its name a string or a number), or something else
TaskEntries ==
    {[kind |-> "object", keys |-> K, name_is_str |-> b] :
        K \in SUBSET RequiredKeys, b \in BOOLEAN}
    \cup {[kind |-> k] : k \in {"string", "number", "array", "null"}}

\* the values of the "tasks" member: absent, null, a number, a non-empty
\* string, a non-empty object, or a list
TasksValues ==
    {[kind |-> k] : k \in {"absent", "null", "number", "string", "object"}}
    \cup {[kind |-> "list", entries |-> es] : es \in SeqsUpTo(TaskEntries, MaxEntries)}

\* the replies of the provider
Replies ==
    {[kind |-> k] : k \in {"not_json", "scalar", "array"}}
    \cup {[kind |-> "object", tasks |-> tv] : tv \in TasksValues}

UserRequests == {"Hola", "Escribe un test"}

NoException == "None"

\* lines 139-145 for one element t: the exception raised by t["id"],
\* t["name"], t["description"], if any
entry_exception(t) ==
    IF t.kind # "object" THEN "TypeError"
    ELSE IF RequiredKeys \subseteq t.keys THEN NoException
    ELSE "KeyError"

RECURSIVE first_exception(_)
\* lines 138-147: the list comprehension stops at the first element that
\* raises
first_exception(entries) ==
    IF entries = <<>> THEN NoException
    ELSE IF entry_exception(Head(entries)) # NoException
        THEN entry_exception(Head(entries))
    ELSE first_exception(Tail(entries))

\* lines 137-160: the exception raised inside the try block, if any
try_exception(reply) ==
    IF reply.kind = "not_json" THEN "JSONDecodeError"
    ELSE IF reply.kind # "object" THEN "AttributeError"
    ELSE IF reply.tasks.kind = "absent" THEN NoException
    ELSE IF reply.tasks.kind \in {"null", "number"} THEN "TypeError"
    ELSE IF reply.tasks.kind \in {"string", "object"} THEN "TypeError"
    ELSE IF first_exception(reply.tasks.entries) # NoException
        THEN first_exception(reply.tasks.entries)
    ELSE IF \E i \in DOMAIN reply.tasks.entries :
                ~reply.tasks.entries[i].name_is_str
        THEN "TypeError"
    ELSE NoException

\* line 163: except (json.JSONDecodeError, KeyError)
caught == {"JSONDecodeError", "KeyError"}

\* lines 166-178: the plan of one task
fallback_plan(user_request) ==
    [kind |-> "plan",
     tasks |-> <<[id |-> "t1", name |-> "Tarea principal",
                  description |-> user_request, agent |-> "generalist"]>>,
     original_request |-> user_request]

\* lines 138-154: the plan built from the reply; every element read gives
\* one task (its fields are not looked at further in this model)
parsed_plan(reply, user_request) ==
    [kind |-> "plan",
     tasks |-> IF reply.tasks.kind = "absent" THEN <<>>
               ELSE [i \in DOMAIN reply.tasks.entries |->
                        [id |-> "from_reply", name |-> "from_reply",
                         description |-> "from_reply", agent |-> "from_reply"]],
     original_request |-> user_request]

PlannerInit ==
    /\ pl_user_request \in UserRequests
    /\ pl_reply = [kind |-> "none"]
    /\ pl_pc = "complete"
    /\ pl_outcome = [kind |-> "none"]

PlannerIdle ==
    /\ pl_user_request = "Hola"
    /\ pl_reply = [kind |-> "none"]
    /\ pl_pc = "idle"
    /\ pl_outcome = [kind |-> "none"]

PlannerFrame ==
    UNCHANGED <<vars_tq, vars_ag, vars_lp, vars_fs, vars_sc, vars_ec, vars_si,
                vars_rg, vars_gt, vars_bus, vars_rn, vars_ob, vars_cy,
                vars_sy, vars_du>>

\* the provider replies and the try block runs to its return
CreatePlanReturnsPlan ==
    /\ pl_pc = "complete"
    /\ \E reply \in Replies :
        /\ try_exception(reply) = NoException
        /\ pl_reply' = reply
        /\ pl_outcome' = parsed_plan(reply, pl_user_request)
    /\ pl_pc' = "done"
    /\ UNCHANGED pl_user_request
    /\ PlannerFrame

\* the provider replies, the try block raises an exception the except
\* clause catches
CreatePlanFallsBack ==
    /\ pl_pc = "complete"
    /\ \E reply \in Replies :
        /\ try_exception(reply) \in caught
        /\ pl_reply' = reply
    /\ pl_outcome' = fallback_plan(pl_user_request)
    /\ pl_pc' = "done"
    /\ UNCHANGED pl_user_request
    /\ PlannerFrame

\* the provider replies, the try block raises an exception the except
\* clause does not catch: it leaves create_plan
CreatePlanRaises ==
    /\ pl_pc = "complete"
    /\ \E reply \in Replies :
        /\ try_exception(reply) \notin caught \cup {NoException}
        /\ pl_reply' = reply
        /\ pl_outcome' = [kind |-> "raised", exception |-> try_exception(reply)]
    /\ pl_pc' = "done"
    /\ UNCHANGED pl_user_request
    /\ PlannerFrame

PlannerNext ==
    \/ CreatePlanReturnsPlan
    \/ CreatePlanFallsBack
    \/ CreatePlanRaises

(***************************************************************************)
(* The life of one scheduled item: the tools of tools/scheduling.py, the   *)
(* /schedule commands of main.py, AutonomousLoop._process_scheduled_items  *)
(* and the scheduled_items table of memory/db.py.                          *)
(***************************************************************************)
\* now_utc() at a position of the clock
ClockAt(k) == FromTicks(k * 30 * TicksPerMinute)

\* the schedules given to the item: once at 01:00, every 30 minutes,
\* daily at 01:00
ItemSchedules ==
    {[type |-> "once", at |-> ClockAt(2)],
     [type |-> "interval", ticks |-> 30 * TicksPerMinute],
     [type |-> "daily", h |-> 1, m |-> 0]}

ItemTypes == {"task", "reminder"}

\* Database.update_scheduled_item(item_id, **kwargs): the columns named
\* are set, the others are left as they are
update_scheduled_item(row, kwargs) ==
    [f \in DOMAIN row |-> IF f \in DOMAIN kwargs THEN kwargs[f] ELSE row[f]]

\* Database.get_due_items: status = 'active' AND next_run_at <= now_iso
is_due_item(row, now) ==
    /\ row.status = "active"
    /\ row.next_run_at # None
    /\ Ticks(parse_iso(row.next_run_at)) <= Ticks(parse_iso(to_iso(now)))

\* the outcomes of the awaited orch.run of a scheduled task (lines 147-158)
RunOutcomes == {"returned", "timeout", "raised"}

\* an update that never ends the item
fired_kwargs_never_done(item, now) ==
    [last_run_at |-> to_iso(now), run_count |-> item.run_count + 1,
     next_run_at |-> compute_next_run(item.schedule, now)]

\* _process_scheduled_items, lines 160-177: the keyword arguments of the
\* update written after the item has fired
fired_kwargs(item, now) ==
    LET new_count == item.run_count + 1
        next_run == compute_next_run(item.schedule, now)
    IN IF next_run = None
        THEN [status |-> "done", last_run_at |-> to_iso(now),
              run_count |-> new_count, next_run_at |-> None]
        ELSE [last_run_at |-> to_iso(now), run_count |-> new_count,
              next_run_at |-> next_run]

\* the row after that update, item being the row as get_due_items read it
fired_update(row, now) ==
    update_scheduled_item(row, fired_kwargs(row, now))

ItemInit ==
    /\ si_clock = 0
    /\ si_item = None
    /\ si_pc = "idle"
    /\ si_fire_now = None
    /\ si_processed = None

ItemIdle ==
    /\ si_clock = 0
    /\ si_item = None
    /\ si_pc = "stopped"
    /\ si_fire_now = None
    /\ si_processed = None

ItemFrame ==
    UNCHANGED <<vars_tq, vars_ag, vars_lp, vars_fs, vars_sc, vars_ec, vars_pl,
                vars_rg, vars_gt, vars_bus, vars_rn, vars_ob, vars_cy,
                vars_sy, vars_du>>

\* time passes
ClockAdvances ==
    /\ si_pc # "stopped"
    /\ si_clock < MaxClock
    /\ si_clock' = si_clock + 1
    /\ UNCHANGED <<si_item, si_pc, si_fire_now, si_processed>>
    /\ ItemFrame

\* create_scheduled_task / create_reminder with a schedule that has a
\* future run
CreateItem ==
    /\ si_pc # "stopped"
    /\ si_item = None
    /\ \E ty \in ItemTypes, sched \in ItemSchedules :
        /\ compute_next_run(sched, ClockAt(si_clock)) # None
        /\ si_item' = [item_type |-> ty, schedule |-> sched,
                       status |-> "active", run_count |-> 0,
                       last_run_at |-> None,
                       next_run_at |-> compute_next_run(sched, ClockAt(si_clock))]
    /\ UNCHANGED <<si_clock, si_pc, si_fire_now, si_processed>>
    /\ ItemFrame

\* cancel_scheduled_item, and /schedule cancel
CancelItem ==
    /\ si_item # None
    /\ si_item.status # "cancelled"
    /\ si_item' = update_scheduled_item(si_item,
                      [status |-> "cancelled", next_run_at |-> None])
    /\ UNCHANGED <<si_clock, si_pc, si_fire_now, si_processed>>
    /\ ItemFrame

\* pause_scheduled_item, and /schedule pause
PauseItem ==
    /\ si_item # None
    /\ si_item.status = "active"
    /\ si_item' = update_scheduled_item(si_item, [status |-> "paused"])
    /\ UNCHANGED <<si_clock, si_pc, si_fire_now, si_processed>>
    /\ ItemFrame

\* resume_scheduled_item, and /schedule resume
ResumeItem ==
    /\ si_item # None
    /\ si_item.status = "paused"
    /\ LET next_run == compute_next_run(si_item.schedule, ClockAt(si_clock)) IN
        si_item' =
            IF next_run = None
                THEN update_scheduled_item(si_item,
                         [status |-> "done", next_run_at |-> None])
                ELSE update_scheduled_item(si_item,
                         [status |-> "active", next_run_at |-> next_run])
    /\ UNCHANGED <<si_clock, si_pc, si_fire_now, si_processed>>
    /\ ItemFrame

\* a tick finds the reminder due: it fires and its row is updated
ReminderItemFires ==
    /\ si_pc = "idle"
    /\ si_item # None
    /\ is_due_item(si_item, ClockAt(si_clock))
    /\ si_item.item_type = "reminder"
    /\ si_item' = fired_update(si_item, ClockAt(si_clock))
    /\ si_processed' = [item |-> si_item, now |-> ClockAt(si_clock),
                        outcome |-> "reminder",
                        updates |-> <<fired_kwargs(si_item,
                                                   ClockAt(si_clock))>>]
    /\ UNCHANGED <<si_clock, si_pc, si_fire_now>>
    /\ ItemFrame

\* a tick finds the task due and awaits orch.run
TaskItemStarts ==
    /\ si_pc = "idle"
    /\ si_item # None
    /\ is_due_item(si_item, ClockAt(si_clock))
    /\ si_item.item_type = "task"
    /\ si_pc' = "running"
    /\ si_fire_now' = ClockAt(si_clock)
    /\ si_processed' = [item |-> si_item, now |-> ClockAt(si_clock),
                        outcome |-> "running", updates |-> <<>>]
    /\ UNCHANGED <<si_clock, si_item>>
    /\ ItemFrame

\* orch.run returns, raises or times out: the row is updated from the
\* schedule read and the now taken when the tick began
TaskItemEnds ==
    /\ si_pc = "running"
    /\ si_item' = update_scheduled_item(si_item,
                      fired_kwargs(si_processed.item, si_fire_now))
    /\ \E outcome \in RunOutcomes :
        si_processed' =
            [si_processed EXCEPT
                !.outcome = outcome,
                !.updates = <<fired_kwargs(si_processed.item, si_fire_now)>>]
    /\ si_pc' = "idle"
    /\ si_fire_now' = None
    /\ UNCHANGED si_clock
    /\ ItemFrame

ItemNext ==
    \/ ClockAdvances
    \/ CreateItem
    \/ CancelItem
    \/ PauseItem
    \/ ResumeItem
    \/ ReminderItemFires
    \/ TaskItemStarts
    \/ TaskItemEnds

(***************************************************************************)
(* tools/registry.py: ToolRegistry.call, as the agent loop calls it:       *)
(* call(tc.name, **tc.arguments), the name and the arguments being those   *)
(* the provider put in the tool call.                                      *)
(***************************************************************************)
\* the tools registered
RegisteredTools ==
    {"read_file", "list_files", "write_file", "write_source", "append_file",
     "delete_file", "make_dir"}

\* the names the provider asks for
CalledNames == RegisteredTools \cup {"nonexistent"}

\* the argument names the provider can send
ArgumentNames == {"path", "content", "tool_name", "self"}

\* a set that leaves out delete_file and make_dir
MUTATING_TOOLS_writes == {"write_file", "write_source", "append_file"}

\* registry._MUTATING_TOOLS
MUTATING_TOOLS ==
    {"write_file", "write_source", "append_file", "delete_file", "make_dir"}

\* the parameters of call(self, tool_name, **kwargs) that a keyword
\* argument cannot repeat
call_parameters == {"self", "tool_name"}

NoCall == [name |-> "none", arguments |-> {}]

\* how the shell command of _auto_commit can end
CommitOutcomes ==
    {"committed", "nothing_staged", "git_failed", "spawn_failed", "timeout"}

NoResult_rg == [kind |-> "none"]

\* ToolResult(success=..., output=..., error=...)
ToolResult(success, err) ==
    [kind |-> "ToolResult", success |-> success, error |-> err]

RegistryInit ==
    /\ rg_auto_commit \in BOOLEAN
    /\ rg_call = NoCall
    /\ rg_pc = "ready"
    /\ rg_handler = "not_invoked"
    /\ rg_commits = 0
    /\ rg_commit_outcome = "none"
    /\ rg_result = NoResult_rg

RegistryIdle ==
    /\ rg_auto_commit = FALSE
    /\ rg_call = NoCall
    /\ rg_pc = "idle"
    /\ rg_handler = "not_invoked"
    /\ rg_commits = 0
    /\ rg_commit_outcome = "none"
    /\ rg_result = NoResult_rg

RegistryFrame ==
    UNCHANGED <<vars_tq, vars_ag, vars_lp, vars_fs, vars_sc, vars_ec, vars_pl,
                vars_si, vars_gt, vars_bus, vars_rn, vars_ob, vars_cy,
                vars_sy, vars_du>>

\* the agent loop evaluates call(tc.name, **tc.arguments) with an argument
\* named like a parameter of call: Python raises TypeError ("got multiple
\* values for argument") before the body of call runs
CallBindingFails ==
    /\ rg_pc \in {"ready", "done"}
    /\ \E name \in CalledNames, arguments \in SUBSET ArgumentNames :
        /\ arguments \cap call_parameters # {}
        /\ rg_call' = [name |-> name, arguments |-> arguments]
    /\ rg_result' = [kind |-> "raised", exception |-> "TypeError"]
    /\ rg_handler' = "not_invoked"
    /\ rg_commits' = 0
    /\ rg_commit_outcome' = "none"
    /\ rg_pc' = "done"
    /\ UNCHANGED rg_auto_commit
    /\ RegistryFrame

\* call, lines 140-141: the name is not registered
CallUnknownTool ==
    /\ rg_pc \in {"ready", "done"}
    /\ \E name \in CalledNames, arguments \in SUBSET ArgumentNames :
        /\ arguments \cap call_parameters = {}
        /\ name \notin RegisteredTools
        /\ rg_call' = [name |-> name, arguments |-> arguments]
    /\ rg_result' = ToolResult(FALSE, "no encontrada")
    /\ rg_handler' = "not_invoked"
    /\ rg_commits' = 0
    /\ rg_commit_outcome' = "none"
    /\ rg_pc' = "done"
    /\ UNCHANGED rg_auto_commit
    /\ RegistryFrame

\* call, lines 146-148: the handler of a registered tool is awaited
CallInvokesHandler ==
    /\ rg_pc \in {"ready", "done"}
    /\ \E name \in CalledNames, arguments \in SUBSET ArgumentNames :
        /\ arguments \cap call_parameters = {}
        /\ name \in RegisteredTools
        /\ rg_call' = [name |-> name, arguments |-> arguments]
    /\ rg_result' = NoResult_rg
    /\ rg_handler' = "running"
    /\ rg_commits' = 0
    /\ rg_commit_outcome' = "none"
    /\ rg_pc' = "handler"
    /\ UNCHANGED rg_auto_commit
    /\ RegistryFrame

\* call, lines 148-149 and 155-158: the handler returns and no commit is
\* due
HandlerReturns ==
    /\ rg_pc = "handler"
    /\ ~(rg_auto_commit /\ rg_call.name \in MUTATING_TOOLS)
    /\ rg_handler' = "returned"
    /\ rg_result' = ToolResult(TRUE, "None")
    /\ rg_pc' = "done"
    /\ UNCHANGED <<rg_auto_commit, rg_call, rg_commits, rg_commit_outcome>>
    /\ RegistryFrame

\* call, lines 148-149 and 155-156: the handler of a mutating tool
\* returns and _auto_commit is awaited
HandlerReturnsThenCommit ==
    /\ rg_pc = "handler"
    /\ rg_auto_commit /\ rg_call.name \in MUTATING_TOOLS
    /\ rg_handler' = "returned"
    /\ rg_commits' = rg_commits + 1
    /\ rg_result' = ToolResult(TRUE, "None")
    /\ rg_pc' = "commit"
    /\ UNCHANGED <<rg_auto_commit, rg_call, rg_commit_outcome>>
    /\ RegistryFrame

\* _auto_commit, lines 40-56: the git command commits, finds nothing staged,
\* fails, cannot be started or is not over after 10 seconds; every
\* Exception is swallowed, and call returns tr (line 158)
AutoCommitEnds ==
    /\ rg_pc = "commit"
    /\ rg_commit_outcome' \in CommitOutcomes
    /\ rg_pc' = "done"
    /\ UNCHANGED <<rg_auto_commit, rg_call, rg_handler, rg_commits, rg_result>>
    /\ RegistryFrame

\* call, lines 150-153: the handler raises an Exception (its own, or the
\* TypeError of arguments it does not take)
HandlerRaises ==
    /\ rg_pc = "handler"
    /\ rg_handler' = "raised"
    /\ rg_result' = ToolResult(FALSE, "str(e)")
    /\ rg_pc' = "done"
    /\ UNCHANGED <<rg_auto_commit, rg_call, rg_commits, rg_commit_outcome>>
    /\ RegistryFrame

\* enable_auto_commit, called between two calls; the record of the call
\* that ended is dropped
EnableAutoCommit ==
    /\ rg_pc \in {"ready", "done"}
    /\ ~rg_auto_commit
    /\ rg_auto_commit' = TRUE
    /\ rg_call' = NoCall
    /\ rg_pc' = "ready"
    /\ rg_handler' = "not_invoked"
    /\ rg_commits' = 0
    /\ rg_commit_outcome' = "none"
    /\ rg_result' = NoResult_rg
    /\ RegistryFrame

RegistryNext ==
    \/ CallBindingFails
    \/ CallUnknownTool
    \/ CallInvokesHandler
    \/ HandlerReturns
    \/ HandlerReturnsThenCommit
    \/ AutoCommitEnds
    \/ HandlerRaises
    \/ EnableAutoCommit

(***************************************************************************)
(* core/improvement_loop.py: the gate _should_run, evaluated by _loop      *)
(* every minute, and the cycle _run_cycle it lets start.  The database is  *)
(* connected before the loop is started (orchestrator.start), so orch.db   *)
(* is set whenever the gate runs.                                          *)
(***************************************************************************)
\* tokens one cycle can use
TokenUses == {0, token_budget_per_hour}

\* _cycles_this_hour: the attempts recorded less than an hour ago
cycles_this_hour ==
    Cardinality({i \in DOMAIN gt_attempts :
                    gt_now - gt_attempts[i].created_at < HourMinutes})

RECURSIVE tokens_since(_, _, _)
\* the tokens of the rows of a sequence whose time is since or later
tokens_since(rows, since, i) ==
    IF i > Len(rows) THEN 0
    ELSE (IF rows[i].created_at >= since THEN rows[i].tokens_used ELSE 0)
         + tokens_since(rows, since, i + 1)

\* db.get_improvement_tokens_last_hour
get_improvement_tokens_last_hour ==
    tokens_since(gt_attempts, gt_now - HourMinutes, 1)

\* _should_run, for a time of last user activity and a branch name as git
\* rev-parse printed it: "run" is True, "checkout_main" is the False that
\* first checks out main, "skip" every other False
should_run(last_user_activity, head) ==
    IF ~gt_enabled THEN "skip"
    ELSE IF gt_last_run_at # None
            /\ gt_now - gt_last_run_at.at < interval_minutes
    THEN "skip"
    ELSE IF cycles_this_hour >= max_cycles_per_hour THEN "skip"
    ELSE IF get_improvement_tokens_last_hour >= token_budget_per_hour
    THEN "skip"
    ELSE IF ~gt_errors /\ gt_now - last_user_activity < idle_minutes_before_run
    THEN "skip"
    ELSE IF head = "improve" THEN "checkout_main"
    ELSE "run"

\* what git rev-parse --abbrev-ref HEAD prints: the branch, or nothing when
\* the command fails (the gate then goes on as on a branch that is not
\* improve/)
HeadsRead == {gt_branch, ""}

GateInit ==
    /\ gt_now = 0
    /\ gt_enabled \in BOOLEAN
    /\ gt_last_run_at = None
    /\ gt_attempts = <<>>
    /\ gt_ran = <<>>
    /\ gt_errors \in BOOLEAN
    /\ gt_last_user_activity = 0
    /\ gt_branch = "main"
    /\ gt_pc = "sleeping"
    /\ gt_user_run = FALSE
    /\ gt_starts = <<>>

GateIdle ==
    /\ gt_now = 0
    /\ gt_enabled = FALSE
    /\ gt_last_run_at = None
    /\ gt_attempts = <<>>
    /\ gt_ran = <<>>
    /\ gt_errors = FALSE
    /\ gt_last_user_activity = 0
    /\ gt_branch = "main"
    /\ gt_pc = "idle"
    /\ gt_user_run = FALSE
    /\ gt_starts = <<>>

GateFrame ==
    UNCHANGED <<vars_tq, vars_ag, vars_lp, vars_fs, vars_sc, vars_ec, vars_pl,
                vars_si, vars_rg, vars_bus, vars_rn, vars_ob, vars_cy,
                vars_sy, vars_du>>

\* _loop: asyncio.sleep(60), after which the gate is evaluated
LoopSleeps ==
    /\ gt_pc = "sleeping"
    /\ gt_now < MaxGateClock
    /\ gt_now' = gt_now + 1
    /\ gt_pc' = "gate"
    /\ UNCHANGED <<gt_enabled, gt_last_run_at, gt_attempts, gt_ran, gt_errors,
                   gt_last_user_activity, gt_branch>>
    /\ UNCHANGED <<gt_user_run, gt_starts>>
    /\ GateFrame

\* a minute passes while the cycle runs
CycleTakesTime ==
    /\ gt_pc = "cycle"
    /\ gt_now < MaxGateClock
    /\ gt_now' = gt_now + 1
    /\ UNCHANGED <<gt_enabled, gt_last_run_at, gt_attempts, gt_ran, gt_errors,
                   gt_last_user_activity, gt_branch, gt_pc>>
    /\ UNCHANGED <<gt_user_run, gt_starts>>
    /\ GateFrame

\* Orchestrator.run, lines 328-329: a user request starts and stamps
\* _last_user_activity
UserActivity ==
    /\ gt_pc \in {"sleeping", "cycle"}
    /\ ~gt_user_run
    /\ gt_last_user_activity' = gt_now
    /\ gt_user_run' = TRUE
    /\ UNCHANGED <<gt_now, gt_enabled, gt_last_run_at, gt_attempts, gt_ran,
                   gt_errors, gt_branch, gt_pc, gt_starts>>
    /\ GateFrame

\* Orchestrator.run returns the response of the user request, or raises
UserRunEnds ==
    /\ gt_pc \in {"sleeping", "cycle"}
    /\ gt_user_run
    /\ gt_user_run' = FALSE
    /\ UNCHANGED <<gt_now, gt_enabled, gt_last_run_at, gt_attempts, gt_ran,
                   gt_errors, gt_last_user_activity, gt_branch, gt_pc,
                   gt_starts>>
    /\ GateFrame

\* the collector captures an error, or its errors leave the 30 minute
\* window
ErrorsChange ==
    /\ gt_pc \in {"sleeping", "cycle"}
    /\ gt_errors' = ~gt_errors
    /\ UNCHANGED <<gt_now, gt_enabled, gt_last_run_at, gt_attempts, gt_ran,
                   gt_last_user_activity, gt_branch, gt_pc>>
    /\ UNCHANGED <<gt_user_run, gt_starts>>
    /\ GateFrame

\* _loop: _should_run returns False, the loop sleeps again
GateSkips ==
    /\ gt_pc = "gate"
    /\ \E head \in HeadsRead :
        should_run(gt_last_user_activity, head) = "skip"
    /\ gt_pc' = "sleeping"
    /\ UNCHANGED <<gt_now, gt_enabled, gt_last_run_at, gt_attempts, gt_ran,
                   gt_errors, gt_last_user_activity, gt_branch>>
    /\ UNCHANGED <<gt_user_run, gt_starts>>
    /\ GateFrame

\* _should_run on an improve/ branch: _git_checkout_main, which swallows
\* a failing checkout, then False
GateChecksOutMain ==
    /\ gt_pc = "gate"
    /\ should_run(gt_last_user_activity, gt_branch) = "checkout_main"
    /\ gt_branch' \in {"main", "improve"}
    /\ gt_pc' = "sleeping"
    /\ UNCHANGED <<gt_now, gt_enabled, gt_last_run_at, gt_attempts, gt_ran,
                   gt_errors, gt_last_user_activity>>
    /\ UNCHANGED <<gt_user_run, gt_starts>>
    /\ GateFrame

\* _loop: _should_run returns True, _run_cycle is about to be awaited
GateOpens ==
    /\ gt_pc = "gate"
    /\ Len(gt_ran) < MaxGateCycles
    /\ \E head \in HeadsRead :
        should_run(gt_last_user_activity, head) = "run"
    /\ gt_pc' = "starting"
    /\ UNCHANGED <<gt_now, gt_enabled, gt_last_run_at, gt_attempts, gt_ran,
                   gt_errors, gt_last_user_activity, gt_branch>>
    /\ gt_starts' = Append(gt_starts, gt_now)
    /\ UNCHANGED gt_user_run
    /\ GateFrame

\* _run_cycle: git checkout -b improve/..., the agent starts working
CycleStarts ==
    /\ gt_pc = "starting"
    /\ gt_pc' = "cycle"
    /\ gt_branch' = "improve"
    /\ UNCHANGED <<gt_now, gt_enabled, gt_last_run_at, gt_attempts, gt_ran,
                   gt_errors, gt_last_user_activity>>
    /\ UNCHANGED <<gt_user_run, gt_starts>>
    /\ GateFrame

\* _run_cycle runs to its end: the finally block checks out main (a failing
\* checkout is swallowed), _last_run_at is stamped and the attempt saved;
\* a merge in error mode marks the errors resolved
CycleCompletes ==
    /\ gt_pc = "cycle"
    /\ \E tokens \in TokenUses :
        /\ gt_ran' = Append(gt_ran, [at |-> gt_now, tokens_used |-> tokens,
                                     recorded |-> TRUE])
        /\ gt_attempts' = Append(gt_attempts,
                                 [created_at |-> gt_now, tokens_used |-> tokens])
    /\ gt_last_run_at' = [at |-> gt_now]
    /\ gt_errors' \in (IF gt_errors THEN {TRUE, FALSE} ELSE {FALSE})
    /\ gt_branch' \in {"main", "improve"}
    /\ gt_pc' = "sleeping"
    /\ UNCHANGED <<gt_now, gt_enabled, gt_last_user_activity>>
    /\ UNCHANGED <<gt_user_run, gt_starts>>
    /\ GateFrame

\* _run_cycle when orch.run exceeds its 300 seconds: the except clause
\* returns, the finally block checks out main, and the statements after the
\* try (stamping _last_run_at, saving the attempt) are not reached
CycleTimesOut ==
    /\ gt_pc = "cycle"
    /\ \E tokens \in TokenUses :
        gt_ran' = Append(gt_ran, [at |-> gt_now, tokens_used |-> tokens,
                                  recorded |-> FALSE])
    /\ gt_branch' \in {"main", "improve"}
    /\ gt_pc' = "sleeping"
    /\ UNCHANGED <<gt_now, gt_enabled, gt_last_run_at, gt_attempts, gt_errors,
                   gt_last_user_activity>>
    /\ UNCHANGED <<gt_user_run, gt_starts>>
    /\ GateFrame

GateNext ==
    \/ LoopSleeps
    \/ CycleTakesTime
    \/ UserActivity
    \/ UserRunEnds
    \/ ErrorsChange
    \/ GateSkips
    \/ GateChecksOutMain
    \/ GateOpens
    \/ CycleStarts
    \/ CycleCompletes
    \/ CycleTimesOut

(***************************************************************************)
(* core/message_bus.py: MessageBus.  Events are published by the task      *)
(* queue with the event types written in its code; handlers are coroutine  *)
(* functions, which return or raise when the event loop runs them.         *)
(***************************************************************************)
\* the event types published
EventTypes == {"task.started", "task.failed"}

\* the key of subscribe_all
Wildcard == "*"

SubscriptionKeys == EventTypes \cup {Wildcard}

\* the handlers that subscribe
Handlers == {"h1", "h2"}

\* asyncio.gather(..., return_exceptions=True)
return_exceptions == TRUE

RECURSIVE SumLens(_, _)
\* the number of subscriptions in _subscribers
SumLens(subs, keys) ==
    IF keys = {} THEN 0
    ELSE LET k == CHOOSE x \in keys : TRUE
         IN Len(subs[k]) + SumLens(subs, keys \ {k})

\* a dispatch that leaves out the wildcard handlers
handlers_of_type_only(subs, type) == subs[type]

\* _dispatch: _subscribers.get(event.type, []) + _subscribers.get("*", [])
handlers_of(subs, type) == subs[type] \o subs[Wildcard]

BusInit ==
    /\ bus_subscribers = [k \in SubscriptionKeys |-> <<>>]
    /\ bus_queue = <<>>
    /\ bus_running = FALSE
    /\ bus_pc = "not_started"
    /\ bus_event = 0
    /\ bus_handlers = <<>>
    /\ bus_pending = {}
    /\ bus_published = <<>>
    /\ bus_dispatches = <<>>
    /\ bus_deliveries = <<>>
    /\ bus_loop_errors = 0

BusIdle ==
    /\ bus_subscribers = [k \in SubscriptionKeys |-> <<>>]
    /\ bus_queue = <<>>
    /\ bus_running = FALSE
    /\ bus_pc = "idle"
    /\ bus_event = 0
    /\ bus_handlers = <<>>
    /\ bus_pending = {}
    /\ bus_published = <<>>
    /\ bus_dispatches = <<>>
    /\ bus_deliveries = <<>>
    /\ bus_loop_errors = 0

BusFrame ==
    UNCHANGED <<vars_tq, vars_ag, vars_lp, vars_fs, vars_sc, vars_ec, vars_pl,
                vars_si, vars_rg, vars_gt, vars_rn, vars_ob, vars_cy, vars_sy,
                vars_du>>

\* subscribe(event_type, handler) and subscribe_all(handler)
Subscribe ==
    /\ bus_pc # "idle"
    /\ SumLens(bus_subscribers, SubscriptionKeys) < MaxSubscriptions
    /\ \E k \in SubscriptionKeys, h \in Handlers :
        bus_subscribers' =
            [bus_subscribers EXCEPT ![k] = Append(bus_subscribers[k], h)]
    /\ UNCHANGED <<bus_queue, bus_running, bus_pc, bus_event, bus_handlers,
                   bus_pending, bus_published, bus_dispatches, bus_deliveries,
                   bus_loop_errors>>
    /\ BusFrame

\* publish(event): the event is put on the queue, which has no size limit
Publish ==
    /\ bus_pc # "idle"
    /\ Len(bus_published) < MaxPublished
    /\ \E type \in EventTypes :
        bus_published' = Append(bus_published, type)
    /\ bus_queue' = Append(bus_queue, Len(bus_published) + 1)
    /\ UNCHANGED <<bus_subscribers, bus_running, bus_pc, bus_event,
                   bus_handlers, bus_pending, bus_dispatches, bus_deliveries,
                   bus_loop_errors>>
    /\ BusFrame

\* start(): _running is set and the task of _loop created
BusStart ==
    /\ bus_pc = "not_started"
    /\ bus_running' = TRUE
    /\ bus_pc' = "waiting"
    /\ UNCHANGED <<bus_subscribers, bus_queue, bus_event, bus_handlers,
                   bus_pending, bus_published, bus_dispatches, bus_deliveries,
                   bus_loop_errors>>
    /\ BusFrame

\* _loop: queue.get() gives the oldest event and _dispatch builds its
\* handlers list and hands one coroutine per entry to gather; with no
\* handlers the event is done at once
LoopGets ==
    /\ bus_pc = "waiting"
    /\ bus_running
    /\ bus_queue # <<>>
    /\ LET event == Head(bus_queue)
           handlers == handlers_of(bus_subscribers, bus_published[event])
       IN /\ bus_queue' = Tail(bus_queue)
          /\ bus_dispatches' =
                Append(bus_dispatches,
                       [event |-> event, subscribers |-> bus_subscribers])
          /\ IF handlers = <<>>
             THEN /\ bus_pc' = "waiting"
                  /\ UNCHANGED <<bus_event, bus_handlers, bus_pending>>
             ELSE /\ bus_pc' = "dispatching"
                  /\ bus_event' = event
                  /\ bus_handlers' = handlers
                  /\ bus_pending' = DOMAIN handlers
    /\ UNCHANGED <<bus_subscribers, bus_running, bus_published,
                   bus_deliveries, bus_loop_errors>>
    /\ BusFrame

\* _loop: wait_for times out on an empty queue and the loop goes round
LoopTimesOut ==
    /\ bus_pc = "waiting"
    /\ bus_running
    /\ bus_queue = <<>>
    /\ UNCHANGED vars_bus
    /\ BusFrame

\* the coroutine of one handler runs and returns
SubscriberReturns ==
    /\ bus_pc = "dispatching"
    /\ \E i \in bus_pending :
        /\ bus_pending' = bus_pending \ {i}
        /\ bus_deliveries' =
            Append(bus_deliveries,
                   [event |-> bus_event, handler |-> bus_handlers[i],
                    outcome |-> "returned"])
    /\ UNCHANGED <<bus_subscribers, bus_queue, bus_running, bus_pc, bus_event,
                   bus_handlers, bus_published, bus_dispatches,
                   bus_loop_errors>>
    /\ BusFrame

\* the coroutine of one handler runs and raises: with return_exceptions
\* gather keeps the exception as that handler's result; without it gather
\* would raise it into _dispatch and _loop, which logs it and goes on
\* while the other coroutines keep running
SubscriberRaises ==
    /\ bus_pc = "dispatching"
    /\ \E i \in bus_pending :
        /\ bus_pending' = bus_pending \ {i}
        /\ bus_deliveries' =
            Append(bus_deliveries,
                   [event |-> bus_event, handler |-> bus_handlers[i],
                    outcome |-> "raised"])
    /\ bus_loop_errors' =
        IF return_exceptions THEN bus_loop_errors ELSE bus_loop_errors + 1
    /\ UNCHANGED <<bus_subscribers, bus_queue, bus_running, bus_pc, bus_event,
                   bus_handlers, bus_published, bus_dispatches>>
    /\ BusFrame

\* gather has every result: _dispatch returns, task_done, the loop goes round
DispatchEnds ==
    /\ bus_pc = "dispatching"
    /\ bus_pending = {}
    /\ bus_pc' = "waiting"
    /\ bus_event' = 0
    /\ bus_handlers' = <<>>
    /\ UNCHANGED <<bus_subscribers, bus_queue, bus_running, bus_pending,
                   bus_published, bus_dispatches, bus_deliveries,
                   bus_loop_errors>>
    /\ BusFrame

\* stop(): _running is cleared and the task cancelled, and with it the
\* handler coroutines gather is still waiting for
BusStop ==
    /\ bus_pc \in {"waiting", "dispatching"}
    /\ bus_running' = FALSE
    /\ bus_pc' = "stopped"
    /\ bus_event' = 0
    /\ bus_handlers' = <<>>
    /\ bus_pending' = {}
    /\ UNCHANGED <<bus_subscribers, bus_queue, bus_published, bus_dispatches,
                   bus_deliveries, bus_loop_errors>>
    /\ BusFrame

BusNext ==
    \/ Subscribe
    \/ Publish
    \/ BusStart
    \/ LoopGets
    \/ LoopTimesOut
    \/ SubscriberReturns
    \/ SubscriberRaises
    \/ DispatchEnds
    \/ BusStop

(***************************************************************************)
(* core/orchestrator.py: Orchestrator.run and run_direct, one call in      *)
(* flight at a time, with the improvement loop setting and clearing        *)
(* _improvement_running beside it.  A step runs from one await to the      *)
(* next.                                                                   *)
(***************************************************************************)
Intents == {"user", "improvement", "autonomous"}

\* the argument user_input: whether it carries the #mention of a project
\* that exists, and whether _is_simple_task accepts it
RunInputs == [mention : {"none", "known"}, simple : BOOLEAN]

\* what the agents produce
RunResponses == {"answer", "Error: failed"}

NoRunResponse == "none"

\* never got past the wait (not there yet)
NotProceeded == [polls |-> 0, running |-> FALSE, waited |-> FALSE]

\* _extract_and_switch_project: the text without the mention when the
\* project exists, the text as it is otherwise
extract_and_switch_project(input) ==
    IF input.mention = "known" THEN [input EXCEPT !.mention = "none"]
    ELSE input

\* a row that leaves out the response
conversation_row_bare(call, user_msg, agent_msg) ==
    [call |-> call, user_msg |-> user_msg, agent_msg |-> NoRunResponse]

\* db.save_conversation(user_msg=user_input, agent_msg=response, ...)
conversation_row(call, user_msg, agent_msg) ==
    [call |-> call, user_msg |-> user_msg, agent_msg |-> agent_msg]

\* a wait that only the flag ends
wait_is_over_unbounded(running, polls) == ~running

\* run, lines 333-336: the break on a clear flag, and the end of range(30)
wait_is_over(running, polls) == ~running \/ polls = poll_limit

RunInit ==
    /\ rn_calls = <<>>
    /\ rn_pc = "ready"
    /\ rn_intent = "none"
    /\ rn_argument = [mention |-> "none", simple |-> TRUE]
    /\ rn_input = [mention |-> "none", simple |-> TRUE]
    /\ rn_polls = 0
    /\ rn_proceeded = NotProceeded
    /\ rn_improvement_running \in BOOLEAN
    /\ rn_last_user_activity = 0
    /\ rn_response = NoRunResponse
    /\ rn_conversations = <<>>
    /\ rn_returned = NoRunResponse

RunIdle ==
    /\ rn_calls = <<>>
    /\ rn_pc = "idle"
    /\ rn_intent = "none"
    /\ rn_argument = [mention |-> "none", simple |-> TRUE]
    /\ rn_input = [mention |-> "none", simple |-> TRUE]
    /\ rn_polls = 0
    /\ rn_proceeded = NotProceeded
    /\ rn_improvement_running = FALSE
    /\ rn_last_user_activity = 0
    /\ rn_response = NoRunResponse
    /\ rn_conversations = <<>>
    /\ rn_returned = NoRunResponse

RunFrame ==
    UNCHANGED <<vars_tq, vars_ag, vars_lp, vars_fs, vars_sc, vars_ec, vars_pl,
                vars_si, vars_rg, vars_gt, vars_bus, vars_ob, vars_cy,
                vars_sy, vars_du>>

\* ImprovementLoop._loop sets the flag around _run_cycle
ImprovementFlagChanges ==
    /\ rn_pc # "idle"
    /\ rn_improvement_running' = ~rn_improvement_running
    /\ UNCHANGED <<rn_calls, rn_pc, rn_intent, rn_argument, rn_input, rn_polls,
                   rn_proceeded, rn_last_user_activity, rn_response,
                   rn_conversations, rn_returned>>
    /\ RunFrame

\* run, lines 326-332: a call begins; a user call stamps
\* _last_user_activity and, when an improvement cycle is running, enters
\* the wait loop
RunStarts ==
    /\ rn_pc \in {"ready", "returned", "raised"}
    /\ Len(rn_calls) < MaxRuns
    /\ \E intent \in Intents, input \in RunInputs :
        /\ rn_calls' = Append(rn_calls,
                              [intent |-> intent,
                               running |-> rn_improvement_running])
        /\ rn_intent' = intent
        /\ rn_argument' = input
        /\ rn_input' = input
        /\ rn_last_user_activity' =
            IF intent = "user" THEN Len(rn_calls) + 1
            ELSE rn_last_user_activity
        /\ rn_pc' = IF intent = "user" /\ rn_improvement_running
                    THEN "polling" ELSE "proceed"
    /\ rn_polls' = 0
    /\ rn_proceeded' = NotProceeded
    /\ rn_response' = NoRunResponse
    /\ rn_returned' = NoRunResponse
    /\ UNCHANGED <<rn_improvement_running, rn_conversations>>
    /\ RunFrame

\* run, lines 333-336: one sleep of a second, then the flag is read; the
\* loop is left when the flag is clear or after the last of the sleeps
Poll ==
    /\ rn_pc = "polling"
    /\ rn_polls' = rn_polls + 1
    /\ IF wait_is_over(rn_improvement_running, rn_polls + 1)
       THEN /\ rn_pc' = "proceed"
            /\ rn_proceeded' = [polls |-> rn_polls + 1,
                                running |-> rn_improvement_running,
                                waited |-> TRUE]
       ELSE UNCHANGED <<rn_pc, rn_proceeded>>
    /\ UNCHANGED <<rn_calls, rn_intent, rn_argument, rn_input, rn_improvement_running,
                   rn_last_user_activity, rn_response, rn_conversations,
                   rn_returned>>
    /\ RunFrame

\* run, lines 339-350: project switching for a user call, the memory
\* context, then the agent of direct mode or the planner
ProceedsToDispatch ==
    /\ rn_pc = "proceed"
    /\ rn_input' = IF rn_intent = "user"
                   THEN extract_and_switch_project(rn_input) ELSE rn_input
    /\ rn_pc' = IF rn_input.simple THEN "agent" ELSE "plan"
    /\ UNCHANGED <<rn_calls, rn_intent, rn_argument, rn_polls, rn_proceeded,
                   rn_improvement_running, rn_last_user_activity, rn_response,
                   rn_conversations, rn_returned>>
    /\ RunFrame

\* run_direct, lines 278-280: agent.run returned; the response is its
\* output or "Error: ..."
DirectAgentReturns ==
    /\ rn_pc = "agent"
    /\ rn_response' \in RunResponses
    /\ rn_pc' = "save"
    /\ UNCHANGED <<rn_calls, rn_intent, rn_argument, rn_input, rn_polls, rn_proceeded,
                   rn_improvement_running, rn_last_user_activity,
                   rn_conversations, rn_returned>>
    /\ RunFrame

\* run, lines 350-355: the plan was created and executed
PlanExecuted ==
    /\ rn_pc = "plan"
    /\ rn_pc' = "synthesize"
    /\ UNCHANGED <<rn_calls, rn_intent, rn_argument, rn_input, rn_polls, rn_proceeded,
                   rn_improvement_running, rn_last_user_activity, rn_response,
                   rn_conversations, rn_returned>>
    /\ RunFrame

\* run, line 358: _synthesize returned the response
Synthesized ==
    /\ rn_pc = "synthesize"
    /\ rn_response' \in RunResponses
    /\ rn_pc' = "save"
    /\ UNCHANGED <<rn_calls, rn_intent, rn_argument, rn_input, rn_polls, rn_proceeded,
                   rn_improvement_running, rn_last_user_activity,
                   rn_conversations, rn_returned>>
    /\ RunFrame

\* run, lines 361-369, and run_direct, lines 283-287: save_conversation
SaveConversation ==
    /\ rn_pc = "save"
    /\ rn_conversations' =
        Append(rn_conversations,
               conversation_row(Len(rn_calls), rn_input, rn_response))
    /\ rn_pc' = "embed"
    /\ UNCHANGED <<rn_calls, rn_intent, rn_argument, rn_input, rn_polls, rn_proceeded,
                   rn_improvement_running, rn_last_user_activity, rn_response,
                   rn_returned>>
    /\ RunFrame

\* run, lines 371-382, and run_direct, lines 289-315: the best-effort task
\* row and embedding, whose failures are swallowed, then return response
RunReturns ==
    /\ rn_pc = "embed"
    /\ rn_returned' = rn_response
    /\ rn_pc' = "returned"
    /\ UNCHANGED <<rn_calls, rn_intent, rn_argument, rn_input, rn_polls, rn_proceeded,
                   rn_improvement_running, rn_last_user_activity, rn_response,
                   rn_conversations>>
    /\ RunFrame

\* an await of the call raises (the agent, the planner, the store), or the
\* wait_for around an autonomous or improvement call cancels it
RunRaises ==
    /\ rn_pc \in {"proceed", "agent", "plan", "synthesize", "save", "embed"}
    /\ rn_pc' = "raised"
    /\ UNCHANGED <<rn_calls, rn_intent, rn_argument, rn_input, rn_polls, rn_proceeded,
                   rn_improvement_running, rn_last_user_activity, rn_response,
                   rn_conversations, rn_returned>>
    /\ RunFrame

RunNext ==
    \/ ImprovementFlagChanges
    \/ RunStarts
    \/ Poll
    \/ ProceedsToDispatch
    \/ DirectAgentReturns
    \/ PlanExecuted
    \/ Synthesized
    \/ SaveConversation
    \/ RunReturns
    \/ RunRaises

(***************************************************************************)
(* Project objectives                                                      *)
(* core/autonomous_loop.py: AutonomousLoop._loop, lines 216-266. Time is   *)
(* kept as minutes elapsed, in steps of a tick. The store functions        *)
(* get_projects_with_objective and update_project_last_autonomous follow   *)
(* the description of the projects table: rows with a non-empty objective  *)
(* by last_autonomous_at ascending, and a stamp of last_autonomous_at with *)
(* the count of the day's runs.                                            *)
(***************************************************************************)
\* the projects followed one by one
Projects == {"p1", "p2"}

\* numbers of further projects with an objective, to reach every tier
OtherCounts == {0, 5, 13, 24, 39}

\* the orders the rows can be in
ProjectOrders ==
    {o \in [1..Cardinality(Projects) -> Projects] :
        \A i, j \in DOMAIN o : i # j => o[i] # o[j]}

\* elapsed minutes are kept up to the longest interval
MaxElapsed == compute_objective_interval(1)

elapse(minutes, more) ==
    IF minutes + more > MaxElapsed THEN MaxElapsed ELSE minutes + more

\* get_projects_with_objective: the rows whose objective is not empty,
\* oldest last_autonomous_at first
get_projects_with_objective ==
    SelectSeq(ob_order, LAMBDA p : ob_has_objective[p])

\* _loop, lines 234-238: the projects under the daily cap
eligible ==
    SelectSeq(get_projects_with_objective,
              LAMBDA p : \/ ~ob_runs_date_is_today[p]
                         \/ ob_runs_today[p] < max_objective_runs_per_day)

\* len(projects)
project_count == Len(get_projects_with_objective) + ob_others

\* a check that lets every tick through
too_early_never(interval) == FALSE

\* _loop, lines 224-228: the interval since the last objective has not
\* passed
too_early(interval) ==
    /\ ob_last_objective_run_at # None
    /\ ob_last_objective_run_at.ago < interval

\* the order of the rows after last_autonomous_at of p became now
moved_last(order, p) ==
    Append(SelectSeq(order, LAMBDA q : q # p), p)

ObjInit ==
    /\ ob_pc = "sleeping"
    /\ ob_has_objective \in [Projects -> BOOLEAN]
    /\ ob_order \in ProjectOrders
    /\ ob_runs_today = [p \in Projects |-> 0]
    /\ ob_runs_date_is_today = [p \in Projects |-> FALSE]
    /\ ob_last_objective_run_at = None
    /\ ob_current = "none"
    /\ ob_project_count = 0
    /\ ob_gap = None
    /\ ob_in_tick = 0
    /\ ob_outcome = "none"

ObjIdle ==
    /\ ob_pc = "idle"
    /\ ob_has_objective = [p \in Projects |-> FALSE]
    /\ ob_others = 0
    /\ ob_order = <<>>
    /\ ob_runs_today = [p \in Projects |-> 0]
    /\ ob_runs_date_is_today = [p \in Projects |-> FALSE]
    /\ ob_last_objective_run_at = None
    /\ ob_current = "none"
    /\ ob_project_count = 0
    /\ ob_gap = None
    /\ ob_in_tick = 0
    /\ ob_outcome = "none"

ObjFrame ==
    UNCHANGED <<vars_tq, vars_ag, vars_lp, vars_fs, vars_sc, vars_ec, vars_pl,
                vars_si, vars_rg, vars_gt, vars_bus, vars_rn, vars_cy,
                vars_sy, vars_du>>

\* _loop, lines 186-216: the sleep until the next aligned tick, one tick
\* after the last or two when the tick before ran over, and the scheduled
\* items
ObjTickSleeps ==
    /\ ob_pc = "sleeping"
    /\ \E ticks \in 1..2 :
        ob_last_objective_run_at' =
            IF ob_last_objective_run_at = None THEN None
            ELSE [ago |-> elapse(ob_last_objective_run_at.ago,
                                 ticks * default_tick_minutes)]
    /\ ob_pc' = "tick"
    /\ ob_in_tick' = 0
    /\ UNCHANGED <<ob_has_objective, ob_others, ob_order, ob_runs_today,
                   ob_runs_date_is_today, ob_current, ob_project_count, ob_gap,
                   ob_outcome>>
    /\ ObjFrame

\* midnight passes between two ticks: no autonomous_runs_date is today
MidnightPasses ==
    /\ ob_pc = "sleeping"
    /\ ob_runs_date_is_today' = [p \in Projects |-> FALSE]
    /\ UNCHANGED <<ob_pc, ob_has_objective, ob_others, ob_order, ob_runs_today,
                   ob_last_objective_run_at, ob_current, ob_project_count,
                   ob_gap, ob_in_tick,
                   ob_outcome>>
    /\ ObjFrame

\* _loop, lines 217-240: no project has an objective, the interval has not
\* passed, or every project is at its daily cap
ProjectObjectiveSkipped ==
    /\ ob_pc = "tick"
    /\ LET interval == compute_objective_interval(project_count) IN
        \/ interval <= 0
        \/ project_count = 0
        \/ too_early(interval)
        \/ eligible = <<>>
    /\ ob_project_count' = project_count
    /\ ob_pc' = "sleeping"
    /\ UNCHANGED <<ob_has_objective, ob_others, ob_order, ob_runs_today,
                   ob_runs_date_is_today, ob_last_objective_run_at, ob_current,
                   ob_gap, ob_in_tick,
                   ob_outcome>>
    /\ ObjFrame

\* _loop, lines 217-253: the first eligible project is taken and orch.run
\* is awaited; the first eligible row is one of the projects followed or,
\* when there are further projects, possibly one of those
ProjectObjectiveStarts ==
    /\ ob_pc = "tick"
    /\ LET interval == compute_objective_interval(project_count) IN
        /\ interval > 0
        /\ project_count # 0
        /\ ~too_early(interval)
    /\ \E proj \in (IF eligible = <<>> THEN {} ELSE {Head(eligible)})
                       \cup (IF ob_others > 0 THEN {"other"} ELSE {}) :
        ob_current' = proj
    /\ ob_project_count' = project_count
    /\ ob_gap' = ob_last_objective_run_at
    /\ ob_in_tick' = ob_in_tick + 1
    /\ ob_pc' = "objective"
    /\ UNCHANGED <<ob_has_objective, ob_others, ob_order, ob_runs_today,
                   ob_runs_date_is_today, ob_last_objective_run_at,
                   ob_outcome>>
    /\ ObjFrame

\* update_project_last_autonomous(proj["id"]): the row is stamped and the
\* run counted for today
update_project_last_autonomous ==
    IF ob_current \in Projects
    THEN /\ ob_order' = moved_last(ob_order, ob_current)
         /\ ob_runs_today' =
                [ob_runs_today EXCEPT ![ob_current] =
                    IF ob_runs_date_is_today[ob_current]
                    THEN IF @ < max_objective_runs_per_day THEN @ + 1 ELSE @
                    ELSE 1]
         /\ ob_runs_date_is_today' =
                [ob_runs_date_is_today EXCEPT ![ob_current] = TRUE]
    ELSE UNCHANGED <<ob_order, ob_runs_today, ob_runs_date_is_today>>

\* _loop, lines 251-256 and 261-266: orch.run returned
ProjectRunReturns ==
    /\ ob_pc = "objective"
    /\ update_project_last_autonomous
    /\ ob_last_objective_run_at' = [ago |-> 0]
    /\ ob_current' = "none"
    /\ ob_outcome' = "returned"
    /\ ob_pc' = "sleeping"
    /\ UNCHANGED <<ob_has_objective, ob_others, ob_project_count, ob_gap,
                   ob_in_tick>>
    /\ ObjFrame

\* _loop, lines 257-259 and 261-266: wait_for cancelled the run after 300
\* seconds
ProjectRunTimesOut ==
    /\ ob_pc = "objective"
    /\ update_project_last_autonomous
    /\ ob_last_objective_run_at' = [ago |-> 0]
    /\ ob_current' = "none"
    /\ ob_outcome' = "timeout"
    /\ ob_pc' = "sleeping"
    /\ UNCHANGED <<ob_has_objective, ob_others, ob_project_count, ob_gap,
                   ob_in_tick>>
    /\ ObjFrame

\* _loop, lines 260-266: orch.run, or building the prompt, raised an
\* Exception; it is logged and the row is not stamped
ProjectRunFails ==
    /\ ob_pc = "objective"
    /\ ob_last_objective_run_at' = [ago |-> 0]
    /\ ob_current' = "none"
    /\ ob_outcome' = "raised"
    /\ ob_pc' = "sleeping"
    /\ UNCHANGED <<ob_has_objective, ob_others, ob_order, ob_runs_today,
                   ob_runs_date_is_today, ob_project_count, ob_gap, ob_in_tick>>
    /\ ObjFrame

ObjNext ==
    \/ ObjTickSleeps
    \/ MidnightPasses
    \/ ProjectObjectiveSkipped
    \/ ProjectObjectiveStarts
    \/ ProjectRunReturns
    \/ ProjectRunTimesOut
    \/ ProjectRunFails

(***************************************************************************)
(* One improvement cycle                                                   *)
(* core/improvement_loop.py: ImprovementLoop._run_cycle, _git_exec,        *)
(* _git_checkout_main; tools/registry.py: _auto_commit. The repository is  *)
(* kept as the branch checked out, whether the improvement branch holds    *)
(* commits, and whether the working tree holds uncommitted changes.        *)
(***************************************************************************)
NoPersisted == [cycle_count |-> 0, last_run_at |-> 0]

\* git commit, as _git_exec runs it: with nothing staged git exits with a
\* status other than 0 and _git_exec raises RuntimeError
git_commit_succeeds(dirty) == dirty

CycleInit ==
    /\ cy_pc = "waiting"
    /\ cy_cycle_count = 0
    /\ cy_branch = "main"
    /\ cy_committed = FALSE
    /\ cy_dirty = FALSE
    /\ cy_steps = 0
    /\ cy_on_main = FALSE
    /\ cy_errors \in BOOLEAN
    /\ cy_fix_mode = FALSE
    /\ cy_resolved = FALSE
    /\ cy_late_errors = FALSE
    /\ cy_outcome = "none"
    /\ cy_changed_files = FALSE
    /\ cy_merged = FALSE
    /\ cy_error_msg = "None"
    /\ cy_returning = FALSE
    /\ cy_attempts = <<>>
    /\ cy_last_run_at = 0
    /\ cy_persisted = NoPersisted

CycleIdle ==
    /\ cy_pc = "idle"
    /\ cy_cycle_count = 0
    /\ cy_branch = "main"
    /\ cy_committed = FALSE
    /\ cy_dirty = FALSE
    /\ cy_steps = 0
    /\ cy_on_main = FALSE
    /\ cy_errors = FALSE
    /\ cy_fix_mode = FALSE
    /\ cy_resolved = FALSE
    /\ cy_late_errors = FALSE
    /\ cy_outcome = "none"
    /\ cy_changed_files = FALSE
    /\ cy_merged = FALSE
    /\ cy_error_msg = "None"
    /\ cy_returning = FALSE
    /\ cy_attempts = <<>>
    /\ cy_last_run_at = 0
    /\ cy_persisted = NoPersisted

CycleFrame ==
    UNCHANGED <<vars_tq, vars_ag, vars_lp, vars_fs, vars_sc, vars_ec, vars_pl,
                vars_si, vars_rg, vars_gt, vars_bus, vars_rn, vars_ob,
                vars_sy, vars_du>>

\* what a cycle leaves alone of the state that outlives it
CycleKeeps ==
    UNCHANGED <<cy_attempts, cy_last_run_at, cy_persisted>>

\* _run_cycle, lines 208-260: the count, the branch created from main with
\* a clean tree, the prompt (fix mode when the collector has errors), and
\* orch.run awaited
ImproveBranchCreated ==
    /\ cy_pc \in {"waiting", "ended"}
    /\ cy_cycle_count < MaxImproveCycles
    /\ cy_cycle_count' = cy_cycle_count + 1
    /\ cy_branch' = "improve"
    /\ cy_committed' = FALSE
    /\ cy_dirty' = FALSE
    /\ cy_steps' = 0
    /\ cy_on_main' = FALSE
    /\ cy_fix_mode' = cy_errors
    /\ cy_resolved' = FALSE
    /\ cy_outcome' = "none"
    /\ cy_changed_files' = FALSE
    /\ cy_merged' = FALSE
    /\ cy_error_msg' = "None"
    /\ cy_returning' = FALSE
    /\ cy_pc' = "run"
    /\ UNCHANGED cy_errors
    /\ CycleKeeps
    /\ cy_late_errors' = FALSE
    /\ CycleFrame

\* _run_cycle, lines 222-224 and 293-295: git checkout -b fails and the
\* RuntimeError of _git_exec is caught
ImproveBranchFails ==
    /\ cy_pc \in {"waiting", "ended"}
    /\ cy_cycle_count < MaxImproveCycles
    /\ cy_cycle_count' = cy_cycle_count + 1
    /\ cy_committed' = FALSE
    /\ cy_dirty' = FALSE
    /\ cy_steps' = 0
    /\ cy_on_main' = FALSE
    /\ cy_fix_mode' = FALSE
    /\ cy_resolved' = FALSE
    /\ cy_outcome' = "none"
    /\ cy_changed_files' = FALSE
    /\ cy_merged' = FALSE
    /\ cy_error_msg' = "git error"
    /\ cy_returning' = FALSE
    /\ cy_pc' = "finally"
    /\ UNCHANGED <<cy_branch, cy_errors>>
    /\ CycleKeeps
    /\ cy_late_errors' = FALSE
    /\ CycleFrame

\* during the run the agent calls a mutating tool: the file is written and
\* _auto_commit stages and commits everything in the tree, or fails and is
\* swallowed
ToolWritesFile ==
    /\ cy_pc = "run"
    /\ cy_steps < MaxChanges
    /\ cy_steps' = cy_steps + 1
    /\ \E commit_done \in BOOLEAN :
        /\ cy_committed' = (cy_committed \/ commit_done)
        /\ cy_dirty' = ~commit_done
    /\ UNCHANGED <<cy_pc, cy_cycle_count, cy_branch, cy_on_main, cy_errors,
                   cy_fix_mode, cy_resolved, cy_outcome, cy_changed_files,
                   cy_merged, cy_error_msg, cy_returning>>
    /\ CycleKeeps
    /\ UNCHANGED cy_late_errors
    /\ CycleFrame

\* during the run the agent changes files through run_command, which the
\* registry does not commit
CommandChangesFiles ==
    /\ cy_pc = "run"
    /\ cy_steps < MaxChanges
    /\ cy_steps' = cy_steps + 1
    /\ cy_dirty' = TRUE
    /\ UNCHANGED <<cy_pc, cy_cycle_count, cy_branch, cy_committed, cy_on_main,
                   cy_errors, cy_fix_mode, cy_resolved, cy_outcome,
                   cy_changed_files, cy_merged, cy_error_msg, cy_returning>>
    /\ CycleKeeps
    /\ UNCHANGED cy_late_errors
    /\ CycleFrame

\* _run_cycle, lines 256-274: orch.run returned within the deadline; git
\* diff --name-only main lists the paths that differ from main, committed
\* on the branch or not
ImproveRunReturns ==
    /\ cy_pc = "run"
    /\ cy_outcome' = "returned"
    /\ cy_changed_files' = (cy_committed \/ cy_dirty)
    /\ cy_pc' = "diff"
    /\ UNCHANGED <<cy_cycle_count, cy_branch, cy_committed, cy_dirty, cy_steps,
                   cy_on_main, cy_errors, cy_fix_mode, cy_resolved, cy_merged,
                   cy_error_msg, cy_returning>>
    /\ CycleKeeps
    /\ UNCHANGED cy_late_errors
    /\ CycleFrame

\* _run_cycle, lines 293-295: orch.run raised an Exception
ImproveRunRaises ==
    /\ cy_pc = "run"
    /\ cy_outcome' = "raised"
    /\ cy_error_msg' = "str(e)"
    /\ cy_pc' = "finally"
    /\ UNCHANGED <<cy_cycle_count, cy_branch, cy_committed, cy_dirty, cy_steps,
                   cy_on_main, cy_errors, cy_fix_mode, cy_resolved,
                   cy_changed_files, cy_merged, cy_returning>>
    /\ CycleKeeps
    /\ UNCHANGED cy_late_errors
    /\ CycleFrame

\* _run_cycle, lines 261-264: wait_for raised asyncio.TimeoutError after
\* 300 seconds; error_msg is set and the function returns, through finally
ImproveRunTimesOut ==
    /\ cy_pc = "run"
    /\ cy_outcome' = "timeout"
    /\ cy_error_msg' = "Timeout"
    /\ cy_returning' = TRUE
    /\ cy_pc' = "finally"
    /\ UNCHANGED <<cy_cycle_count, cy_branch, cy_committed, cy_dirty, cy_steps,
                   cy_on_main, cy_errors, cy_fix_mode, cy_resolved,
                   cy_changed_files, cy_merged>>
    /\ CycleKeeps
    /\ UNCHANGED cy_late_errors
    /\ CycleFrame

\* _run_cycle, lines 289-291: changed_files is empty
NoChanges ==
    /\ cy_pc = "diff"
    /\ ~cy_changed_files
    /\ cy_pc' = "finally"
    /\ UNCHANGED <<cy_cycle_count, cy_branch, cy_committed, cy_dirty, cy_steps,
                   cy_on_main, cy_errors, cy_fix_mode, cy_resolved, cy_outcome,
                   cy_changed_files, cy_merged, cy_error_msg, cy_returning>>
    /\ CycleKeeps
    /\ UNCHANGED cy_late_errors
    /\ CycleFrame

\* _run_cycle, lines 275-288: git add -A and git commit succeed, main is
\* checked out and the branch merged; merged is set and, in fix mode, the
\* errors are marked resolved
CommitAndMerge ==
    /\ cy_pc = "diff"
    /\ cy_changed_files
    /\ git_commit_succeeds(cy_dirty)
    /\ cy_committed' = TRUE
    /\ cy_dirty' = FALSE
    /\ cy_branch' = "main"
    /\ cy_on_main' = TRUE
    /\ cy_merged' = TRUE
    /\ cy_resolved' = cy_fix_mode
    /\ cy_errors' = IF cy_fix_mode THEN FALSE ELSE cy_errors
    /\ cy_late_errors' = IF cy_fix_mode THEN FALSE ELSE cy_late_errors
    /\ cy_pc' = "finally"
    /\ UNCHANGED <<cy_cycle_count, cy_steps, cy_fix_mode, cy_outcome,
                   cy_changed_files, cy_error_msg, cy_returning>>
    /\ CycleKeeps
    /\ CycleFrame

\* _run_cycle, lines 275-280 and 293-295: git commit finds nothing to
\* commit, _git_exec raises and the RuntimeError is caught
CommitFails ==
    /\ cy_pc = "diff"
    /\ cy_changed_files
    /\ ~git_commit_succeeds(cy_dirty)
    /\ cy_error_msg' = "git error"
    /\ cy_pc' = "finally"
    /\ UNCHANGED <<cy_cycle_count, cy_branch, cy_committed, cy_dirty, cy_steps,
                   cy_on_main, cy_errors, cy_fix_mode, cy_resolved, cy_outcome,
                   cy_changed_files, cy_merged, cy_returning>>
    /\ CycleKeeps
    /\ UNCHANGED cy_late_errors
    /\ CycleFrame

\* _run_cycle, lines 297-303: main is checked out and the improvement
\* branch deleted with the commits that were not merged; after a timeout
\* the function is left here
CycleCleanup ==
    /\ cy_pc = "finally"
    /\ cy_branch' = "main"
    /\ cy_committed' = FALSE
    /\ cy_pc' = IF cy_returning THEN "ended" ELSE "record"
    /\ UNCHANGED <<cy_cycle_count, cy_dirty, cy_steps, cy_on_main, cy_errors,
                   cy_fix_mode, cy_resolved, cy_outcome, cy_changed_files,
                   cy_merged, cy_error_msg, cy_returning>>
    /\ CycleKeeps
    /\ UNCHANGED cy_late_errors
    /\ CycleFrame

\* _run_cycle, lines 305-327: _last_run_at is stamped, the attempt saved
\* and the loop state persisted
CycleRecorded ==
    /\ cy_pc = "record"
    /\ cy_last_run_at' = cy_cycle_count
    /\ cy_attempts' = Append(cy_attempts,
                             [cycle |-> cy_cycle_count, merged |-> cy_merged,
                              changed_files |-> cy_changed_files,
                              error |-> cy_error_msg])
    /\ cy_persisted' = [cycle_count |-> cy_cycle_count,
                        last_run_at |-> cy_cycle_count]
    /\ cy_pc' = "ended"
    /\ UNCHANGED <<cy_cycle_count, cy_branch, cy_committed, cy_dirty, cy_steps,
                   cy_on_main, cy_errors, cy_fix_mode, cy_resolved, cy_outcome,
                   cy_changed_files, cy_merged, cy_error_msg, cy_returning>>
    /\ UNCHANGED cy_late_errors
    /\ CycleFrame

\* between two cycles the collector takes an error
ErrorCollected ==
    /\ cy_pc \in {"waiting", "ended"}
    /\ ~cy_errors
    /\ cy_errors' = TRUE
    /\ UNCHANGED <<cy_pc, cy_cycle_count, cy_branch, cy_committed, cy_dirty,
                   cy_steps, cy_on_main, cy_fix_mode, cy_resolved, cy_outcome,
                   cy_changed_files, cy_merged, cy_error_msg, cy_returning>>
    /\ CycleKeeps
    /\ UNCHANGED cy_late_errors
    /\ CycleFrame

\* while orch.run of the cycle is awaited a logger of bbclaw reports an
\* error (a failing tool call, for one) and the collector captures it
ErrorCollectedInCycle ==
    /\ cy_pc = "run"
    /\ ~cy_late_errors
    /\ cy_late_errors' = TRUE
    /\ cy_errors' = TRUE
    /\ UNCHANGED <<cy_pc, cy_cycle_count, cy_branch, cy_committed, cy_dirty,
                   cy_steps, cy_on_main, cy_fix_mode, cy_resolved, cy_outcome,
                   cy_changed_files, cy_merged, cy_error_msg, cy_returning>>
    /\ CycleKeeps
    /\ CycleFrame

CycleNext ==
    \/ ImproveBranchCreated
    \/ ImproveBranchFails
    \/ ToolWritesFile
    \/ CommandChangesFiles
    \/ ImproveRunReturns
    \/ ImproveRunRaises
    \/ ImproveRunTimesOut
    \/ NoChanges
    \/ CommitAndMerge
    \/ CommitFails
    \/ CycleCleanup
    \/ CycleRecorded
    \/ ErrorCollected
    \/ ErrorCollectedInCycle

(***************************************************************************)
(* Synthesis                                                               *)
(* core/orchestrator.py: Orchestrator._synthesize, called on the plan that *)
(* TaskQueue.execute returned: every task is done or failed. The agent     *)
(* named "orchestrator" is always registered (agents/agents.py, line 169). *)
(***************************************************************************)
\* a task after execute: done with the output of its agent, which can be
\* the empty text, or failed
SettledTasks ==
    [status : {"done"}, result : {"Empty", "Text"}]
        \cup [status : {"failed"}, result : {"None"}]

NoSynthResponse == [kind |-> "none"]

\* done_tasks, as positions in plan.tasks
done_tasks(tasks) == {i \in DOMAIN tasks : tasks[i].status = "done"}

\* _synthesize, line 393: len(plan.tasks) == 1 and done_tasks
simple_case(tasks) == Len(tasks) = 1 /\ done_tasks(tasks) # {}

\* _synthesize, line 394: done_tasks[0].result or "(sin resultado)"
task_output(tasks) ==
    LET first == CHOOSE i \in done_tasks(tasks) :
                    \A j \in done_tasks(tasks) : i <= j
    IN IF tasks[first].result = "Empty"
       THEN [kind |-> "placeholder", task |-> first]
       ELSE [kind |-> "output", task |-> first]

\* _synthesize, lines 397-402: one section per done or failed task
results_text(tasks) ==
    [i \in DOMAIN tasks |->
        IF tasks[i].status = "done" THEN "result" ELSE "error"]

SynthInit ==
    /\ \E n \in 0..MaxPlanTasks : sy_tasks \in [1..n -> SettledTasks]
    /\ sy_pc = "called"
    /\ sy_agent_input = <<>>
    /\ sy_response = NoSynthResponse

SynthIdle ==
    /\ sy_tasks = <<>>
    /\ sy_pc = "idle"
    /\ sy_agent_input = <<>>
    /\ sy_response = NoSynthResponse

SynthFrame ==
    UNCHANGED <<vars_tq, vars_ag, vars_lp, vars_fs, vars_sc, vars_ec, vars_pl,
                vars_si, vars_rg, vars_gt, vars_bus, vars_rn, vars_ob, vars_cy,
                vars_du>>

\* _synthesize, lines 393-394: the plan has one task and it is done
ReturnsTaskOutput ==
    /\ sy_pc = "called"
    /\ simple_case(sy_tasks)
    /\ sy_response' = task_output(sy_tasks)
    /\ sy_pc' = "returned"
    /\ UNCHANGED <<sy_tasks, sy_agent_input>>
    /\ SynthFrame

\* _synthesize, lines 404-405: no task gave a section
ReturnsNoResults ==
    /\ sy_pc = "called"
    /\ ~simple_case(sy_tasks)
    /\ results_text(sy_tasks) = <<>>
    /\ sy_response' = [kind |-> "no_results"]
    /\ sy_pc' = "returned"
    /\ UNCHANGED <<sy_tasks, sy_agent_input>>
    /\ SynthFrame

\* _synthesize, lines 407-421: the digest is handed to the orchestrator
\* agent
SynthesizerInvoked ==
    /\ sy_pc = "called"
    /\ ~simple_case(sy_tasks)
    /\ results_text(sy_tasks) # <<>>
    /\ sy_agent_input' = Append(sy_agent_input, results_text(sy_tasks))
    /\ sy_pc' = "agent"
    /\ UNCHANGED <<sy_tasks, sy_response>>
    /\ SynthFrame

\* _synthesize, line 422: the agent's output, or the digest when it failed
SynthesizerReturns ==
    /\ sy_pc = "agent"
    /\ \E success \in BOOLEAN :
        sy_response' = IF success THEN [kind |-> "synthesis"]
                       ELSE [kind |-> "digest"]
    /\ sy_pc' = "returned"
    /\ UNCHANGED <<sy_tasks, sy_agent_input>>
    /\ SynthFrame

SynthNext ==
    \/ ReturnsTaskOutput
    \/ ReturnsNoResults
    \/ SynthesizerInvoked
    \/ SynthesizerReturns

(***************************************************************************)
(* The due items of a tick                                                 *)
(* core/autonomous_loop.py: AutonomousLoop._process_scheduled_items, with  *)
(* the rows of scheduled_items that memory/db.py get_due_items selects.    *)
(* A row is due when it is active and its next_run_at has come; the rows   *)
(* are named in the order of their next_run_at.                            *)
(***************************************************************************)
DueItems == {"item1", "item2"}

\* ORDER BY next_run_at ASC
DueOrder == <<"item1", "item2">>

\* the stored schedules: one compute_next_run evaluates, and one it cannot
\* (a text that json.loads rejected, for which line 135 hands it {} and
\* spec["type"] raises KeyError)
StoredSchedules == {"valid", "undecodable"}

\* compute_next_run raises for the stored schedule
compute_next_run_raises(schedule) == schedule = "undecodable"

\* Database.get_due_items, as a list of item names
get_due_items(rows) == SelectSeq(DueOrder, LAMBDA id : rows[id].due)

DueInit ==
    /\ du_pc = "sleep"
    /\ du_rows \in [DueItems -> [due : {FALSE}, schedule : StoredSchedules]]
    /\ du_list = <<>>
    /\ du_snapshot = <<>>
    /\ du_fired = {}
    /\ du_fires = [id \in DueItems |-> 0]
    /\ du_dues = [id \in DueItems |-> 0]
    /\ du_ticks = 0

DueIdle ==
    /\ du_pc = "idle"
    /\ du_rows = [id \in DueItems |-> [due |-> FALSE, schedule |-> "valid"]]
    /\ du_list = <<>>
    /\ du_snapshot = <<>>
    /\ du_fired = {}
    /\ du_fires = [id \in DueItems |-> 0]
    /\ du_dues = [id \in DueItems |-> 0]
    /\ du_ticks = 0

DueFrame ==
    UNCHANGED <<vars_tq, vars_ag, vars_lp, vars_fs, vars_sc, vars_ec, vars_pl,
                vars_si, vars_rg, vars_gt, vars_bus, vars_rn, vars_ob, vars_cy,
                vars_sy>>

\* between two ticks the next_run_at of an active item comes
ItemComesDue(id) ==
    /\ du_pc = "sleep"
    /\ ~du_rows[id].due
    /\ du_dues[id] < MaxTimesDue
    /\ du_rows' = [du_rows EXCEPT ![id].due = TRUE]
    /\ du_dues' = [du_dues EXCEPT ![id] = @ + 1]
    /\ UNCHANGED <<du_pc, du_list, du_snapshot, du_fired, du_fires, du_ticks>>
    /\ DueFrame

\* lines 130-131: the tick reads the due items
DueItemsRead ==
    /\ du_pc = "sleep"
    /\ du_ticks < MaxItemTicks
    /\ du_ticks' = du_ticks + 1
    /\ du_list' = get_due_items(du_rows)
    /\ du_snapshot' = get_due_items(du_rows)
    /\ du_fired' = {}
    /\ du_pc' = "items"
    /\ UNCHANGED <<du_rows, du_fires, du_dues>>
    /\ DueFrame

\* lines 133-158: the next item fires: the reminder is appended to the
\* pending reminders, or the task is run and awaited (its timeout and its
\* exceptions are caught at lines 155-158)
DueItemFires ==
    /\ du_pc = "items"
    /\ du_list # <<>>
    /\ du_fired' = du_fired \cup {Head(du_list)}
    /\ du_fires' = [du_fires EXCEPT ![Head(du_list)] = @ + 1]
    /\ du_pc' = "fired"
    /\ UNCHANGED <<du_rows, du_list, du_snapshot, du_dues, du_ticks>>
    /\ DueFrame

\* lines 160-177: the row is advanced: next_run_at moves past now, or the
\* item is done
DueItemAdvanced ==
    /\ du_pc = "fired"
    /\ ~compute_next_run_raises(du_rows[Head(du_list)].schedule)
    /\ du_rows' = [du_rows EXCEPT ![Head(du_list)].due = FALSE]
    /\ du_list' = Tail(du_list)
    /\ du_pc' = "items"
    /\ UNCHANGED <<du_snapshot, du_fired, du_fires, du_dues, du_ticks>>
    /\ DueFrame

\* lines 162-177 raise: compute_next_run cannot evaluate the schedule, or
\* update_scheduled_item fails in the store; the row is left as it was.  The
\* try statement of line 128 encloses the whole for loop: the except clause
\* of line 178 logs the error and the other items of the list are left out
DueItemFails ==
    /\ du_pc = "fired"
    /\ \E store_fails \in BOOLEAN :
        compute_next_run_raises(du_rows[Head(du_list)].schedule) \/ store_fails
    /\ du_list' = <<>>
    /\ du_pc' = "items"
    /\ UNCHANGED <<du_rows, du_snapshot, du_fired, du_fires, du_dues, du_ticks>>
    /\ DueFrame

\* _process_scheduled_items returns and the loop sleeps until the next tick
DueTickEnds ==
    /\ du_pc = "items"
    /\ du_list = <<>>
    /\ du_pc' = "sleep"
    /\ UNCHANGED <<du_rows, du_list, du_snapshot, du_fired, du_fires, du_dues,
                   du_ticks>>
    /\ DueFrame

DueNext ==
    \/ \E id \in DueItems : ItemComesDue(id)
    \/ DueItemsRead
    \/ DueItemFires
    \/ DueItemAdvanced
    \/ DueItemFails
    \/ DueTickEnds

(***************************************************************************)
(* Specifications, one per subsystem                                       *)
(***************************************************************************)
\* a plan is handed to TaskQueue.execute
InitTQ == TQInit /\ AgentIdle /\ LoopsIdle /\ FSIdle /\ SchedIdle /\ CollectorIdle /\ PlannerIdle /\ ItemIdle /\ RegistryIdle /\ GateIdle /\ BusIdle /\ RunIdle /\ ObjIdle /\ CycleIdle /\ SynthIdle /\ DueIdle

SpecTQ == InitTQ /\ [][TQNext]_vars

\* every agent run terminates and the event loop keeps scheduling
FairSpecTQ == SpecTQ /\ WF_vars(TQNext)

\* Agent.run is called
InitAgent == AgentInit /\ TQIdle /\ LoopsIdle /\ FSIdle /\ SchedIdle /\ CollectorIdle /\ PlannerIdle /\ ItemIdle /\ RegistryIdle /\ GateIdle /\ BusIdle /\ RunIdle /\ ObjIdle /\ CycleIdle /\ SynthIdle /\ DueIdle

SpecAgent == InitAgent /\ [][AgentNext]_vars

\* the provider and the tools answer, and the event loop keeps scheduling
FairSpecAgent == SpecAgent /\ WF_vars(AgentNext)

\* the two background loops were started
InitLoops == LoopsInit /\ TQIdle /\ AgentIdle /\ FSIdle /\ SchedIdle /\ CollectorIdle /\ PlannerIdle /\ ItemIdle /\ RegistryIdle /\ GateIdle /\ BusIdle /\ RunIdle /\ ObjIdle /\ CycleIdle /\ SynthIdle /\ DueIdle

SpecLoops == InitLoops /\ [][LoopsNext]_vars

\* the event loop runs a cancelled task: its next step raises CancelledError
FairSpecLoops ==
    /\ InitLoops /\ [][LoopsNext]_vars
    /\ WF_vars(ImprovementCancelled)
    /\ WF_vars(AutonomousCancelled)

\* the file tools are called by the agents
InitFS == FSInit /\ TQIdle /\ AgentIdle /\ LoopsIdle /\ SchedIdle /\ CollectorIdle /\ PlannerIdle /\ ItemIdle /\ RegistryIdle /\ GateIdle /\ BusIdle /\ RunIdle /\ ObjIdle /\ CycleIdle /\ SynthIdle /\ DueIdle

SpecFS == InitFS /\ [][FSNext]_vars

\* the recurrence functions are applied to a spec and an instant
InitSched == SchedInit /\ TQIdle /\ AgentIdle /\ LoopsIdle /\ FSIdle /\ CollectorIdle /\ PlannerIdle /\ ItemIdle /\ RegistryIdle /\ GateIdle /\ BusIdle /\ RunIdle /\ ObjIdle /\ CycleIdle /\ SynthIdle /\ DueIdle

SpecSched == InitSched /\ [][SchedNext]_vars

\* the handler is attached and the loggers of bbclaw report errors
InitCollector == CollectorInit /\ TQIdle /\ AgentIdle /\ LoopsIdle /\ FSIdle /\ SchedIdle /\ PlannerIdle /\ ItemIdle /\ RegistryIdle /\ GateIdle /\ BusIdle /\ RunIdle /\ ObjIdle /\ CycleIdle /\ SynthIdle /\ DueIdle

SpecCollector == InitCollector /\ [][CollectorNext]_vars

\* the handler goes on capturing after a burst has filled the ring
InitCollectorFull == CollectorFullInit /\ TQIdle /\ AgentIdle /\ LoopsIdle /\ FSIdle /\ SchedIdle /\ PlannerIdle /\ ItemIdle /\ RegistryIdle /\ GateIdle /\ BusIdle /\ RunIdle /\ ObjIdle /\ CycleIdle /\ SynthIdle /\ DueIdle

SpecCollectorFull == InitCollectorFull /\ [][CollectorNext]_vars

\* create_plan is called and awaits the provider
InitPlanner == PlannerInit /\ TQIdle /\ AgentIdle /\ LoopsIdle /\ FSIdle /\ SchedIdle /\ CollectorIdle /\ ItemIdle /\ RegistryIdle /\ GateIdle /\ BusIdle /\ RunIdle /\ ObjIdle /\ CycleIdle /\ SynthIdle /\ DueIdle

SpecPlanner == InitPlanner /\ [][PlannerNext]_vars

\* the database is open and the autonomous loop ticks
InitItem == ItemInit /\ TQIdle /\ AgentIdle /\ LoopsIdle /\ FSIdle /\ SchedIdle /\ CollectorIdle /\ PlannerIdle /\ RegistryIdle /\ GateIdle /\ BusIdle /\ RunIdle /\ ObjIdle /\ CycleIdle /\ SynthIdle /\ DueIdle

SpecItem == InitItem /\ [][ItemNext]_vars

\* the agent loop dispatches tool calls to the registry
InitRegistry == RegistryInit /\ TQIdle /\ AgentIdle /\ LoopsIdle /\ FSIdle /\ SchedIdle /\ CollectorIdle /\ PlannerIdle /\ ItemIdle /\ GateIdle /\ BusIdle /\ RunIdle /\ ObjIdle /\ CycleIdle /\ SynthIdle /\ DueIdle

SpecRegistry == InitRegistry /\ [][RegistryNext]_vars

\* the improvement loop evaluating its gate every minute
InitGate == GateInit /\ TQIdle /\ AgentIdle /\ LoopsIdle /\ FSIdle /\ SchedIdle /\ CollectorIdle /\ PlannerIdle /\ ItemIdle /\ RegistryIdle /\ BusIdle /\ RunIdle /\ ObjIdle /\ CycleIdle /\ SynthIdle /\ DueIdle

SpecGate == InitGate /\ [][GateNext]_vars

\* the bus with publishers, subscribers and its dispatcher task
InitBus == BusInit /\ TQIdle /\ AgentIdle /\ LoopsIdle /\ FSIdle /\ SchedIdle /\ CollectorIdle /\ PlannerIdle /\ ItemIdle /\ RegistryIdle /\ GateIdle /\ RunIdle /\ ObjIdle /\ CycleIdle /\ SynthIdle /\ DueIdle

SpecBus == InitBus /\ [][BusNext]_vars

\* the event loop runs the dispatcher task and the handler coroutines
\* whenever they are ready; nothing forces a publisher, a subscriber or
\* stop to act
FairSpecBus ==
    /\ SpecBus
    /\ WF_vars(LoopGets)
    /\ WF_vars(SubscriberReturns \/ SubscriberRaises)
    /\ WF_vars(DispatchEnds)

\* requests handed to Orchestrator.run while the improvement loop comes
\* and goes
InitRun == RunInit /\ TQIdle /\ AgentIdle /\ LoopsIdle /\ FSIdle /\ SchedIdle /\ CollectorIdle /\ PlannerIdle /\ ItemIdle /\ RegistryIdle /\ GateIdle /\ BusIdle /\ ObjIdle /\ CycleIdle /\ SynthIdle /\ DueIdle

SpecRun == InitRun /\ [][RunNext]_vars

\* the autonomous loop ticking over projects with objectives, some of them
\* beyond the two followed one by one
InitObj == ObjInit /\ ob_others \in OtherCounts /\ TQIdle /\ AgentIdle /\ LoopsIdle /\ FSIdle /\ SchedIdle /\ CollectorIdle /\ PlannerIdle /\ ItemIdle /\ RegistryIdle /\ GateIdle /\ BusIdle /\ RunIdle /\ CycleIdle /\ SynthIdle /\ DueIdle

SpecObj == InitObj /\ [][ObjNext]_vars

\* the same loop when every project with an objective is followed one by one
InitObjAll == ObjInit /\ ob_others = 0 /\ TQIdle /\ AgentIdle /\ LoopsIdle /\ FSIdle /\ SchedIdle /\ CollectorIdle /\ PlannerIdle /\ ItemIdle /\ RegistryIdle /\ GateIdle /\ BusIdle /\ RunIdle /\ CycleIdle /\ SynthIdle /\ DueIdle

\* _loop never stops ticking, and an awaited run ends (it returns, raises
\* or is cancelled by wait_for after 300 seconds); midnight is not forced
FairSpecObj ==
    /\ InitObjAll /\ [][ObjNext]_vars
    /\ WF_vars(ObjTickSleeps)
    /\ WF_vars(ProjectObjectiveSkipped)
    /\ WF_vars(ProjectObjectiveStarts)
    /\ WF_vars(ProjectRunReturns \/ ProjectRunTimesOut \/ ProjectRunFails)

\* improvement cycles in a repository where the registry commits what the
\* agent's file tools write
InitCycle == CycleInit /\ TQIdle /\ AgentIdle /\ LoopsIdle /\ FSIdle /\ SchedIdle /\ CollectorIdle /\ PlannerIdle /\ ItemIdle /\ RegistryIdle /\ GateIdle /\ BusIdle /\ RunIdle /\ ObjIdle /\ SynthIdle /\ DueIdle

SpecCycle == InitCycle /\ [][CycleNext]_vars

\* _synthesize called on every plan execute can hand over
InitSynth == SynthInit /\ TQIdle /\ AgentIdle /\ LoopsIdle /\ FSIdle /\ SchedIdle /\ CollectorIdle /\ PlannerIdle /\ ItemIdle /\ RegistryIdle /\ GateIdle /\ BusIdle /\ RunIdle /\ ObjIdle /\ CycleIdle /\ DueIdle

SpecSynth == InitSynth /\ [][SynthNext]_vars

\* the autonomous loop processes the due items tick after tick
InitDue == DueInit /\ TQIdle /\ AgentIdle /\ LoopsIdle /\ FSIdle /\ SchedIdle /\ CollectorIdle /\ PlannerIdle /\ ItemIdle /\ RegistryIdle /\ GateIdle /\ BusIdle /\ RunIdle /\ ObjIdle /\ CycleIdle /\ SynthIdle

SpecDue == InitDue /\ [][DueNext]_vars

(***************************************************************************)
(* Properties of the plan executor                                         *)
(***************************************************************************)
\* a dependency names an id that is not a task of the plan
MissingRef == \E t \in plan_tasks : depends_on[t] \ plan_tasks # {}

RECURSIVE DepClosure(_, _)
\* the ids reachable from S through depends_on in at most n steps
DepClosure(S, n) ==
    IF n = 0 THEN S
    ELSE DepClosure(S \cup UNION {depends_on[x] : x \in S \cap plan_tasks}, n - 1)

\* the dependencies form a cycle
Cyclic == \E t \in plan_tasks : t \in DepClosure(depends_on[t], MaxTasks)

\* the failure of a task whose own run failed (not one closed as blocked)
RunFailed(d) ==
    status[d] = "failed" /\ error[d].kind \in {"agent", "exception", "no_agent"}

\* C1: when TaskQueue.execute returns, every task of the plan is done or
\* failed; no task is left pending or running.
C1_AllTasksSettled ==
    tq_pc = "done" => \A t \in plan_tasks : status[t] \in {"done", "failed"}

\* C1 witness: execute returned on a full plan with a done task, a task
\* whose agent raised and a task closed as blocked.
C1_Witness ==
    /\ tq_pc = "done"
    /\ plan_tasks = TaskIds
    /\ \E t \in plan_tasks : status[t] = "done"
    /\ \E t \in plan_tasks : error[t].kind = "exception"
    /\ \E t \in plan_tasks : error[t].kind = "deadlock"

\* C2: a task becomes running, and its agent is started, only when every
\* id in its depends_on is a task of the plan that has reached done; this
\* also holds in a parallel batch.
C2_StartsAfterPrerequisites ==
    [][\A t \in plan_tasks :
          (\/ status[t] # "running" /\ status'[t] = "running"
           \/ agent_runs'[t] > agent_runs[t])
          => \A d \in depends_on[t] : d \in plan_tasks /\ status[d] = "done"]_vars

\* C2 witness: a task with prerequisites is running inside a parallel batch.
C2_Witness ==
    \E t \in plan_tasks :
        /\ status[t] = "running"
        /\ agent_runs[t] = 1
        /\ depends_on[t] # {}
        /\ Cardinality(ready) >= 2

\* C3: when the ready-set is empty while pending tasks remain, every
\* pending task becomes failed with a deadlock error that names each of its
\* unsatisfied dependencies, and no done or failed task is altered.
C3_DeadlockClosure ==
    [][(tq_pc = "loop" /\ get_ready(completed_ids) = {} /\ get_pending # {})
       => /\ \A t \in get_pending :
                /\ status'[t] = "failed"
                /\ error'[t].kind = "deadlock"
                /\ depends_on[t] \ completed_ids # {}
                /\ depends_on[t] \ completed_ids \subseteq error'[t].deps
          /\ \A t \in plan_tasks \ get_pending :
                /\ status'[t] = status[t]
                /\ error'[t] = error[t]
                /\ result'[t] = result[t]]_vars

\* C3 witness: a blocked task with one satisfied and one unsatisfied
\* dependency was closed, next to a task that failed by itself.
C3_Witness ==
    /\ tq_pc = "done"
    /\ \E t \in plan_tasks :
          /\ error[t].kind = "deadlock"
          /\ depends_on[t] \cap completed_ids # {}
          /\ depends_on[t] \ completed_ids # {}
    /\ \E t \in plan_tasks : RunFailed(t)

\* C4: execute terminates for every plan, and a plan with a missing
\* dependency id or a dependency cycle ends with has_failures true.
C4_Terminates ==
    <>(tq_pc = "done" /\ ((MissingRef \/ Cyclic) => has_failures))

\* C4 witness: execute returned on a plan that has a cycle and a reference
\* to a missing id, after running one task to done.
C4_Witness ==
    /\ tq_pc = "done"
    /\ Cyclic
    /\ MissingRef
    /\ \E t \in plan_tasks : status[t] = "done"

\* C5: a task that depends on a task whose run failed is still run by its
\* agent, and its dependency context contains the failed prerequisite.
C5_DependentsOfFailedRun ==
    tq_pc = "done" =>
        \A t \in plan_tasks : \A d \in depends_on[t] \cap plan_tasks :
            RunFailed(d) =>
                /\ agent_runs[t] >= 1
                /\ \E s \in dep_ctx[t] : s.dep = d /\ s.tag = "FAILED"

(***************************************************************************)
(* Properties of the agent loop                                            *)
(***************************************************************************)
\* the responses before the last one all carried tool calls
EarlierHadToolCalls ==
    \A i \in 1..(Len(responses) - 1) : responses[i].tool_calls # <<>>

\* what a finished run must have returned, given the responses it received
ReturnMatchesResponses ==
    ag_pc = "returned" =>
        IF responses # <<>> /\ responses[Len(responses)].tool_calls = <<>>
        THEN /\ ag_result.success
             /\ ag_result.output = FinalContent(responses[Len(responses)].content)
             /\ EarlierHadToolCalls
        ELSE /\ Len(responses) = MaxIterations
             /\ \A i \in 1..Len(responses) : responses[i].tool_calls # <<>>
             /\ ~ag_result.success
             /\ ag_result.error = "max_iterations"

IsCarrier(ms, i) == ms[i].role = "assistant" /\ "tool_calls" \in DOMAIN ms[i]

\* the tool messages that follow the carrier at place a answer its calls,
\* one each and in order, and nothing else follows before the next turn
CarrierAnswered(ms, a) ==
    LET k == Len(ms[a].tool_calls) IN
    /\ a + k <= Len(ms)
    /\ \A j \in 1..k :
          /\ ms[a + j].role = "tool"
          /\ ms[a + j].tool_call_id = ms[a].tool_calls[j].id
    /\ a + k + 1 <= Len(ms) => ms[a + k + 1].role # "tool"

\* the tool message at place i answers a call of the carrier that
\* immediately precedes its run of tool messages
ToolAnswersCarrier(ms, i) ==
    \E a \in 1..(i - 1) :
        /\ IsCarrier(ms, a)
        /\ \A j \in (a + 1)..i : ms[j].role = "tool"
        /\ i - a <= Len(ms[a].tool_calls)
        /\ ms[i].tool_call_id = ms[a].tool_calls[i - a].id

\* C7: in every message list handed to complete, each assistant turn with
\* tool calls is followed by exactly one tool message per call, with the
\* matching id, and every tool message answers the preceding carrier.
C7_ToolPairing ==
    \A i \in 1..Len(api_messages) :
        /\ IsCarrier(api_messages, i) => CarrierAnswered(api_messages, i)
        /\ api_messages[i].role = "tool" => ToolAnswersCarrier(api_messages, i)

\* C7 witness: a list with two carriers, one of them with two calls, was
\* handed to complete.
C7_Witness ==
    /\ ag_pc = "complete"
    /\ Cardinality({i \in 1..Len(api_messages) : IsCarrier(api_messages, i)}) = 2
    /\ \E i \in 1..Len(api_messages) :
          IsCarrier(api_messages, i) /\ Len(api_messages[i].tool_calls) = 2

RECURSIVE Flatten(_)
\* the concatenation of the tool calls of a sequence of responses
Flatten(rs) ==
    IF rs = <<>> THEN <<>> ELSE rs[1].tool_calls \o Flatten(Tail(rs))

\* the tool calls answered by the tool messages of ms, in order
RECURSIVE Answered(_)
Answered(ms) ==
    IF ms = <<>> THEN <<>>
    ELSE IF ms[1].role = "tool"
         THEN <<[id |-> ms[1].tool_call_id, name |-> ms[1].name]>> \o Answered(Tail(ms))
         ELSE Answered(Tail(ms))

\* C8: tool calls are dispatched in emission order, their results are
\* appended in that order before the next completion, and tool_calls_made
\* is the number of tool calls dispatched in the run.
C8_EmissionOrder ==
    /\ Len(dispatched) <= Len(Flatten(responses))
    /\ dispatched = SubSeq(Flatten(responses), 1, Len(dispatched))
    /\ Answered(messages) = dispatched
    /\ ag_pc \in {"loop", "complete", "returned"} => dispatched = Flatten(responses)
    /\ ag_pc = "returned" => ag_result.tool_calls_made = Len(dispatched)

\* C8 witness: the run returned after a turn with two different calls and
\* a later turn.
C8_Witness ==
    /\ ag_pc = "returned"
    /\ Len(responses) >= 3
    /\ Len(responses[1].tool_calls) = 2
    /\ responses[1].tool_calls[1] # responses[1].tool_calls[2]
    /\ ag_result.tool_calls_made >= 3

\* C9: Agent.run never raises to its caller: a provider failure ends the
\* run with an AgentResult whose success is false.
C9_NeverRaises ==
    /\ ag_pc # "raised"
    /\ ag_exception # "None" => (ag_pc = "returned" /\ ~ag_result.success)

(***************************************************************************)
(* Properties of the background loops                                      *)
(***************************************************************************)
\* C10: while an improvement cycle is running, the autonomous loop is not
\* executing a scheduled task nor processing a project objective.
C10_LoopExclusion ==
    improvement_running => auto_pc \notin {"item_task", "objective"}

(***************************************************************************)
(* Properties of the workspace file tools                                  *)
(***************************************************************************)
\* the path lies in the directory tree of root: root is the path or one of
\* its ancestors, component by component
Inside(path, root) ==
    /\ Len(root) <= Len(path)
    /\ SubSeq(path, 1, Len(root)) = root

\* C11: a path argument that is not rejected resolves inside the directory
\* tree of the workspace root, and a path that resolves outside it is
\* rejected before the handler touches the filesystem.
C11_PathContainment ==
    /\ fs_outcome = "accepted" => Inside(fs_target, fs_base)
    /\ \A t \in fs_touched : Inside(t, fs_base)


(***************************************************************************)
(* Properties of the recurrence arithmetic                                 *)
(***************************************************************************)
\* C12: when compute_next_run(spec, t) is not null, the timestamp it
\* returns is strictly greater than t.
C12_StrictlyAfter ==
    (sc_pc = "computed" /\ sc_next_run # None)
        => Ticks(parse_iso(sc_next_run)) > Ticks(sc_after)

\* C13: next_aligned_tick(k, now) has a minute that is a multiple of k and
\* zero seconds and sub-seconds, is not earlier than now and is at most k
\* minutes after now.
C13_TickAlignment ==
    sc_pc = "aligned" =>
        /\ sc_tick.minute % sc_tick_minutes = 0
        /\ sc_tick.second = 0
        /\ sc_tick.sub = 0
        /\ Ticks(sc_tick) >= Ticks(sc_after)
        /\ Ticks(sc_tick) - Ticks(sc_after) <= sc_tick_minutes * TicksPerMinute

\* the next slot is in the following hour, day, month and year
C13_Witness ==
    /\ sc_pc = "aligned"
    /\ sc_tick_minutes = 15
    /\ sc_after.sub > 0
    /\ sc_tick.year = sc_after.year + 1
    /\ sc_tick.minute = 0

\* the instant is one the recurring spec names: HH:MM:00 on a matching day
Matches(spec, dt) ==
    /\ dt.hour = spec.h /\ dt.minute = spec.m /\ dt.second = 0 /\ dt.sub = 0
    /\ spec.type = "weekly" => weekday(dt) = spec.day
    /\ spec.type = "monthly" => dt.day = spec.day_of_month

\* HH:MM:00 of the spec on the n-th day from the day of dt
OnDay(spec, dt, n) ==
    plus([dt EXCEPT !.hour = spec.h, !.minute = spec.m, !.second = 0, !.sub = 0],
         n * TicksPerDay)

\* the run of a daily, weekly or monthly spec is a matching instant after
\* `after`, and no matching instant after `after` comes before it
RecurringIsEarliest ==
    (sc_pc = "computed" /\ sc_spec.type \in {"daily", "weekly", "monthly"}) =>
        /\ sc_next_run # None
        /\ LET r == parse_iso(sc_next_run) IN
            /\ Matches(sc_spec, r)
            /\ Ticks(r) > Ticks(sc_after)
            /\ \A n \in 0..31 :
                LET c == OnDay(sc_spec, sc_after, n) IN
                (Matches(sc_spec, c) /\ Ticks(c) > Ticks(sc_after))
                    => Ticks(r) <= Ticks(c)

\* the run of a once spec is its at when at is after `after`, else null
OnceReturnsAt ==
    (sc_pc = "computed" /\ sc_spec.type = "once") =>
        IF Ticks(parse_iso(sc_spec.at)) > Ticks(sc_after)
            THEN /\ sc_next_run # None
                 /\ parse_iso(sc_next_run) = parse_iso(sc_spec.at)
            ELSE sc_next_run = None

\* C19: for daily, weekly and monthly specs compute_next_run returns the
\* earliest instant strictly after `after` that is at HH:MM:00 UTC on a
\* matching day; for once it returns `at` when at > after and null otherwise.
C19_EarliestOccurrence ==
    /\ RecurringIsEarliest
    /\ OnceReturnsAt

\* monthly day 15 10:00 after 2024-12-20T11:00Z gives 2025-01-15T10:00Z
YearRolloverExample ==
    /\ sc_pc = "computed"
    /\ sc_spec = [type |-> "monthly", day_of_month |-> 15, h |-> 10, m |-> 0]
    /\ sc_after = [year |-> 2024, month |-> 12, day |-> 20, hour |-> 11,
                   minute |-> 0, second |-> 0, sub |-> 0]
    /\ sc_next_run = [year |-> 2025, month |-> 1, day |-> 15, hour |-> 10,
                      minute |-> 0, second |-> 0]

(***************************************************************************)
(* Properties of the error collector                                       *)
(***************************************************************************)
\* the calls of emit
EmitIdx == {i \in DOMAIN ec_log : ec_log[i].kind = "emit"}

\* two calls of emit with the same logger and the same message
SameError(i, j) ==
    /\ ec_log[i].name = ec_log[j].name
    /\ ec_log[i].msg = ec_log[j].msg

\* two records of the same error less than 60 seconds apart, the second
\* being the latest occurrence of that error
DedupPairs ==
    {p \in EmitIdx \X EmitIdx :
        /\ p[1] < p[2]
        /\ SameError(p[1], p[2])
        /\ ec_log[p[2]].time - ec_log[p[1]].time < DEDUP_WINDOW_S
        /\ \A k \in EmitIdx : k > p[2] => ~SameError(p[2], k)}

\* the records of the ring that account for one of the two calls
HoldersOf(p) ==
    {id \in {ec_errors[n] : n \in DOMAIN ec_errors} :
        ec_records[id].absorbed \cap {p[1], p[2]} # {}}

\* one ErrorRecord accounts for both calls, with count >= 2 and the
\* timestamp of the later call
OneRecord(p) ==
    \E id \in DOMAIN ec_records :
        /\ HoldersOf(p) = {id}
        /\ ec_records[id].count >= 2
        /\ ec_records[id].timestamp = ec_log[p[2]].time

\* mark_all_resolved was called between the two calls of emit
ResolvedBetween(p) ==
    \E k \in (p[1] + 1)..(p[2] - 1) : ec_log[k].kind = "resolve"

AppendedBetween(p) ==
    {id \in DOMAIN ec_records :
        \A k \in ec_records[id].absorbed : p[1] < k /\ k < p[2]}

InvalidReply(reply) ==
    \/ reply.kind \in {"not_json", "scalar", "array"}
    \/ /\ reply.kind = "object"
       /\ \/ reply.tasks.kind \in {"null", "number", "string", "object"}
          \/ /\ reply.tasks.kind = "list"
             /\ \E i \in DOMAIN reply.tasks.entries :
                    \/ reply.tasks.entries[i].kind # "object"
                    \/ ~(RequiredKeys \subseteq reply.tasks.entries[i].keys)

\* C15: for every provider reply that is not valid JSON or is structurally
\* invalid, create_plan returns, without raising, the plan of exactly one
\* task whose id is t1, whose agent is generalist and whose description is
\* the raw user request.
C15_FallbackOnInvalid ==
    (pl_pc = "done" /\ InvalidReply(pl_reply)) =>
        /\ pl_outcome.kind = "plan"
        /\ Len(pl_outcome.tasks) = 1
        /\ pl_outcome.tasks[1].id = "t1"
        /\ pl_outcome.tasks[1].agent = "generalist"
        /\ pl_outcome.tasks[1].description = pl_user_request

(***************************************************************************)
(* Properties of the scheduled items                                       *)
(***************************************************************************)
\* C16: after any sequence of create, fire, pause, resume and cancel, the
\* item has a next_run_at timestamp if and only if its status is active.
C16_NextRunIffActive ==
    si_item # None => (si_item.next_run_at # None <=> si_item.status = "active")

(***************************************************************************)
(* Properties of the tool registry                                         *)
(***************************************************************************)
\* C17: ToolRegistry.call never raises to the agent loop: for an
\* unregistered name it returns a ToolResult with success=false and a
\* not-found error without invoking any handler, and for a handler that
\* raises it returns a ToolResult with success=false carrying the error text.
C17_CallNeverRaises ==
    rg_pc = "done" =>
        /\ rg_result.kind = "ToolResult"
        /\ rg_call.name \notin RegisteredTools =>
            /\ ~rg_result.success
            /\ rg_result.error = "no encontrada"
            /\ rg_handler = "not_invoked"
        /\ rg_handler = "raised" =>
            /\ ~rg_result.success
            /\ rg_result.error = "str(e)"

\* C25: _auto_commit is awaited once in a call exactly when the handler of
\* write_file, append_file, delete_file, make_dir or write_source returned
\* with auto-commit enabled, and never after a handler that raised, an
\* unknown name or another tool; when the git command fails or times out
\* the call still returns the successful ToolResult of the handler
C25_AutoCommit ==
    LET mutating == rg_call.name \in {"write_file", "append_file",
                                      "delete_file", "make_dir",
                                      "write_source"}
        due == rg_handler = "returned" /\ rg_auto_commit /\ mutating
    IN
    /\ rg_commits = IF rg_pc \in {"commit", "done"} /\ due THEN 1 ELSE 0
    /\ rg_pc = "commit" => due
    /\ rg_commit_outcome # "none" => rg_pc = "done" /\ rg_commits = 1
    /\ (rg_pc = "done" /\ rg_commits = 1) =>
        /\ rg_commit_outcome \in CommitOutcomes
        /\ rg_result = ToolResult(TRUE, "None")

\* C25 witness: the commit of a successful delete_file timed out and the
\* call returned the successful result
C25_Witness ==
    /\ rg_pc = "done"
    /\ rg_call.name = "delete_file"
    /\ rg_commit_outcome = "timeout"
    /\ rg_result = ToolResult(TRUE, "None")

RanLastHour == {i \in DOMAIN gt_ran : gt_now - gt_ran[i].at < HourMinutes}

RECURSIVE TokensRan(_)
\* the tokens the cycles of a set used
TokensRan(S) ==
    IF S = {} THEN 0
    ELSE LET i == CHOOSE j \in S : TRUE
         IN gt_ran[i].tokens_used + TokensRan(S \ {i})

\* the conditions under which a cycle may start
CycleMayStart ==
    /\ gt_enabled
    /\ \A i \in DOMAIN gt_ran : gt_now - gt_ran[i].at >= interval_minutes
    /\ Cardinality(RanLastHour) < max_cycles_per_hour
    /\ TokensRan(RanLastHour) < token_budget_per_hour
    /\ gt_branch # "improve"
    /\ \/ gt_errors
       \/ gt_now - gt_last_user_activity >= idle_minutes_before_run

\* with unresolved errors the gate gives the same result for every time of
\* last user activity
ErrorsBypassIdle ==
    gt_errors =>
        \A a \in 0..gt_now, head \in HeadsRead :
            should_run(a, head) = should_run(gt_last_user_activity, head)

\* C18: a cycle starts only when the feature is enabled, interval_minutes
\* have passed since the last cycle, fewer than max_cycles_per_hour cycles
\* ran in the last hour, the tokens of the last hour are below the budget,
\* the branch is not an improve/ branch and there are unresolved errors or
\* the user has been idle for idle_minutes_before_run; with unresolved
\* errors the result of the gate does not depend on the last user activity
C18_GateConditions ==
    /\ gt_pc = "starting" => CycleMayStart
    /\ ErrorsBypassIdle

(***************************************************************************)
(* Properties of the message bus                                           *)
(***************************************************************************)
\* how many times a handler occurs in a list of handlers
Occurrences(h, list) == Cardinality({i \in DOMAIN list : list[i] = h})

\* how many times the handler was subscribed for the event of a dispatch:
\* under the type of the event and as a wildcard handler
SubscribedFor(d, h) ==
    Occurrences(h, d.subscribers[bus_published[d.event]])
    + Occurrences(h, d.subscribers[Wildcard])

\* how many times the handler ran with the event
DeliveredTo(event, h) ==
    Cardinality({i \in DOMAIN bus_deliveries :
                    /\ bus_deliveries[i].event = event
                    /\ bus_deliveries[i].handler = h})

\* the event was dispatched to every handler subscribed for it
Dispatched(event) ==
    \E i \in DOMAIN bus_dispatches :
        /\ bus_dispatches[i].event = event
        /\ \A h \in Handlers :
            DeliveredTo(event, h) = SubscribedFor(bus_dispatches[i], h)

\* no handler runs more often with an event than it was subscribed for it,
\* and once the running dispatcher is past an event every handler has run
\* once for each of its subscriptions
ExactlyOnce ==
    \A i \in DOMAIN bus_dispatches :
        LET d == bus_dispatches[i]
        IN /\ \A h \in Handlers : DeliveredTo(d.event, h) <= SubscribedFor(d, h)
           /\ (bus_running /\ bus_event # d.event) => Dispatched(d.event)

\* events are taken in the order they were published, and no handler runs
\* with an earlier event after one ran with a later event
PublishOrder ==
    /\ \A i \in DOMAIN bus_dispatches : bus_dispatches[i].event = i
    /\ \A i, j \in DOMAIN bus_deliveries :
        i < j => bus_deliveries[i].event <= bus_deliveries[j].event

\* a raising handler stops neither the dispatcher nor the publishers
FailuresSwallowed ==
    /\ bus_loop_errors = 0
    /\ (\E i \in DOMAIN bus_deliveries : bus_deliveries[i].outcome = "raised")
        => (bus_running => bus_pc \in {"waiting", "dispatching"})

\* every event published is dispatched while the dispatcher keeps running
EventuallyDispatched ==
    \A event \in 1..MaxPublished :
        (Len(bus_published) >= event /\ bus_running)
            ~> (Dispatched(event) \/ ~bus_running)

AutonomousRunInFlight == auto_pc \in {"item_task", "objective"}

\* the orch.run call of an improvement cycle is in flight
ImprovementRunInFlight == imp_pc = "cycle"

\* C24: while an Orchestrator.run call is in flight, no step of another
\* actor changes the workspace root its tools resolve paths against
C24_WorkspaceStable ==
    [][/\ (AutonomousRunInFlight /\ auto_pc' = auto_pc)
            => workspace' = workspace
       /\ (ImprovementRunInFlight /\ imp_pc' = imp_pc)
            => workspace' = workspace]_vars

(***************************************************************************)
(* Properties of the request pipeline                                      *)
(***************************************************************************)
\* the rows of the conversations table written by a call
RowsOf(call) ==
    {i \in DOMAIN rn_conversations : rn_conversations[i].call = call}

\* C21: a call of run that returns a response, in direct and in planned
\* mode, has written exactly one conversation row, holding the user message
\* (as run holds it, a #mention of an existing project removed) and that
\* response; the row is written after the response exists and before run
\* returns, and no call writes two rows
C21_ConversationPersisted ==
    LET call == Len(rn_calls) IN
    /\ \A c \in 1..call : Cardinality(RowsOf(c)) <= 1
    /\ rn_pc = "returned" =>
        /\ rn_returned \in RunResponses
        /\ \E i \in RowsOf(call) :
            /\ RowsOf(call) = {i}
            /\ rn_conversations[i].user_msg = rn_input
            /\ rn_conversations[i].agent_msg = rn_returned
    /\ (call > 0 /\ RowsOf(call) # {}) =>
        /\ rn_response \in RunResponses
        /\ rn_pc \in {"embed", "returned", "raised"}
    /\ rn_pc \in {"polling", "proceed", "agent", "plan", "synthesize", "save"}
        => RowsOf(call) = {} /\ rn_returned = NoRunResponse

\* C21 witness: a second call, in planned mode, returned its response after
\* a first call in direct mode did
C21_Witness ==
    /\ Len(rn_calls) = 2
    /\ ~rn_argument.simple /\ rn_argument.mention = "known"
    /\ rn_pc = "returned"
    /\ Len(rn_conversations) = 2
    /\ rn_conversations[1].user_msg.simple

\* the call in flight, or the last one made
CurrentCall == rn_calls[Len(rn_calls)]

\* the last call with intent user, 0 when there was none
LastUserCall ==
    LET U == {c \in DOMAIN rn_calls : rn_calls[c].intent = "user"}
    IN IF U = {} THEN 0 ELSE CHOOSE c \in U : \A d \in U : d <= c

\* C23: a user call that arrives during an improvement cycle stays in the
\* wait, before project switching, context building and dispatch, until the
\* flag was read clear after a one-second sleep or 30 sleeps were made, and
\* then goes on; calls of the other intents, and user calls arriving with
\* the flag clear, never wait; only user calls set last_user_activity
C23_ImprovementWait ==
    /\ rn_last_user_activity = LastUserCall
    /\ rn_calls # <<>> =>
        /\ rn_pc = "polling" =>
            /\ CurrentCall.intent = "user" /\ CurrentCall.running
            /\ rn_polls < 30
            /\ rn_input = rn_argument
            /\ rn_response = NoRunResponse
        /\ rn_pc \notin {"polling", "ready"} =>
            IF CurrentCall.intent = "user" /\ CurrentCall.running
            THEN /\ rn_proceeded.waited
                 /\ rn_proceeded.polls = rn_polls
                 /\ rn_polls \in 1..30
                 /\ ~rn_proceeded.running \/ rn_polls = 30
            ELSE ~rn_proceeded.waited /\ rn_polls = 0

\* C23 witness: a user call went on after 30 sleeps with the cycle still
\* running, after an autonomous call that did not wait although the flag
\* was set
C23_Witness ==
    /\ Len(rn_calls) = 2
    /\ rn_calls[1].intent = "autonomous" /\ rn_calls[1].running
    /\ rn_calls[2].intent = "user"
    /\ rn_pc = "returned"
    /\ rn_proceeded = [polls |-> 30, running |-> TRUE, waited |-> TRUE]

(***************************************************************************)
(* Properties of the project objectives                                    *)
(***************************************************************************)
\* C27: a tick processes at most one objective and none when no project
\* has an objective; between the start of an objective and the start of
\* the one before it lie at least interval(N) minutes, N being the number
\* of projects with an objective at the later tick: 60 for 1-6, 30 for
\* 7-14, 15 for 15-25, 10 for 26-40, 5 from 41 on
C27_ObjectiveInterval ==
    /\ ob_in_tick <= 1
    /\ ob_pc = "objective" =>
        /\ ob_in_tick = 1
        /\ ob_project_count = project_count
        /\ ob_project_count > 0
        /\ ob_gap # None =>
            ob_gap.ago >= IF ob_project_count <= 6 THEN 60
                          ELSE IF ob_project_count <= 14 THEN 30
                          ELSE IF ob_project_count <= 25 THEN 15
                          ELSE IF ob_project_count <= 40 THEN 10
                          ELSE 5

\* C27 witness: with 7 projects an objective starts 30 minutes after the
\* one before it
C27_Witness ==
    /\ ob_pc = "objective"
    /\ ob_project_count = 7
    /\ ob_gap = [ago |-> 30]

\* the project has an objective and is under its daily cap
UnderCap(p) ==
    /\ ob_has_objective[p]
    /\ \/ ~ob_runs_date_is_today[p]
       \/ ob_runs_today[p] < max_objective_runs_per_day

\* the project taken is the eligible one stamped longest ago
ChosenIsOldest ==
    (ob_pc = "objective" /\ ob_current \in Projects) =>
        /\ UnderCap(ob_current)
        /\ \A i \in DOMAIN ob_order :
            (UnderCap(ob_order[i]) /\ ob_order[i] # ob_current) =>
                \E j \in 1..(i - 1) : ob_order[j] = ob_current

\* when the run of a project ends, the project is last in the order
MovesBehind ==
    (ob_pc = "objective" /\ ob_pc' # "objective" /\ ob_current \in Projects)
        => ob_order'[Len(ob_order')] = ob_current

\* C28: the project taken at a tick is the eligible one processed longest
\* ago; when its run ends, completed, timed out or failed, it is behind the
\* others; and every project with an objective that is under its cap is
\* processed at some later tick
C28_RoundRobin ==
    /\ []ChosenIsOldest
    /\ [][MovesBehind]_vars
    /\ \A p \in Projects :
        UnderCap(p) ~> (ob_pc = "objective" /\ ob_current = p)

(***************************************************************************)
(* Properties of one improvement cycle                                     *)
(***************************************************************************)
\* the rows of improvement_attempts written for a cycle
AttemptsOf(cycle) == {i \in DOMAIN cy_attempts : cy_attempts[i].cycle = cycle}

\* C29: a cycle that started ends, merged, without changes, after a git
\* error or after the timeout of its run, with main checked out, exactly
\* one attempt recorded for it, and the loop state persisted with the
\* last_run_at of this cycle
C29_CycleAlwaysRecorded ==
    cy_pc = "ended" =>
        /\ cy_branch = "main"
        /\ Cardinality(AttemptsOf(cy_cycle_count)) = 1
        /\ cy_last_run_at = cy_cycle_count
        /\ cy_persisted = [cycle_count |-> cy_cycle_count,
                           last_run_at |-> cy_cycle_count]

\* C30: a cycle whose run returned within the deadline and whose changed
\* paths are not empty ends merged with its changes on main, whether the
\* changes were committed on the branch by the registry or not; the errors
\* are marked resolved only in such a cycle, in fix mode
C30_ChangesMerged ==
    /\ (cy_pc = "ended" /\ cy_outcome = "returned" /\ cy_changed_files) =>
        cy_merged /\ cy_on_main
    /\ cy_resolved =>
        /\ cy_fix_mode
        /\ cy_outcome = "returned" /\ cy_changed_files
        /\ cy_merged /\ cy_on_main

(***************************************************************************)
(* Further properties of the plan executor                                 *)
(***************************************************************************)
\* how far a status is along pending, running, done or failed
StatusRank(st) ==
    IF st = "pending" THEN 0 ELSE IF st = "running" THEN 1 ELSE 2

\* one step of the executor, seen from every task
StatusAdvances ==
    \A t \in plan_tasks :
        /\ StatusRank(status'[t]) >= StatusRank(status[t])
        /\ status[t] \in {"done", "failed"} =>
            /\ status'[t] = status[t]
            /\ result'[t] = result[t]
            /\ error'[t] = error[t]

\* C31: during execute the status of a task never moves backward along
\* pending, running, done or failed, and once a task is done or failed its
\* status, result and error stay as they are
C31_StatusMonotonic == [][StatusAdvances]_vars

\* C31 witness: the plan ended with a task done after running, and
\* another failed by the deadlock branch without having run
C31_Witness ==
    /\ tq_pc = "done"
    /\ \E t, u \in plan_tasks :
        /\ status[t] = "done" /\ agent_runs[t] = 1
        /\ status[u] = "failed" /\ error[u].kind = "deadlock"

\* the step that selects a batch takes only tasks that are pending and
\* were in no batch before; the agent is invoked only for a task of the
\* batch that became running
SelectsPendingOnly ==
    /\ (tq_pc = "loop" /\ tq_pc' = "batch") =>
        /\ ready' # {}
        /\ \A t \in ready' :
            /\ status[t] = "pending"
            /\ task_pc[t] = "idle"
            /\ agent_runs[t] = 0
    /\ \A t \in plan_tasks :
        agent_runs'[t] # agent_runs[t] =>
            /\ t \in ready
            /\ status[t] = "running"
            /\ agent_runs[t] = 0 /\ agent_runs'[t] = 1

\* C39: in one execute call the agent is invoked at most once per task,
\* only for a task that was pending when its batch was selected; no task
\* runs again after it finished and no task is in two batches
C39_AtMostOnce ==
    /\ [](\A t \in plan_tasks : agent_runs[t] <= 1)
    /\ [][SelectsPendingOnly]_vars

\* C39 witness: the plan ended after two batches, every task run once
C39_Witness ==
    /\ tq_pc = "done"
    /\ Cardinality(plan_tasks) >= 2
    /\ \A t \in plan_tasks : agent_runs[t] = 1 /\ status[t] = "done"
    /\ \E t \in plan_tasks : depends_on[t] # {}

(***************************************************************************)
(* Properties of the synthesis                                             *)
(***************************************************************************)
\* C33: when exactly one task of the plan ended done, the response is the
\* output of that task and the synthesizer agent is not invoked; in every
\* other case with at least one result or failure the digest is passed to
\* the synthesizer agent
C33_SingleDoneIsResponse ==
    sy_pc = "returned" =>
        IF Cardinality(done_tasks(sy_tasks)) = 1
        THEN /\ sy_agent_input = <<>>
             /\ sy_response.kind \in {"output", "placeholder"}
             /\ sy_response.task \in done_tasks(sy_tasks)
        ELSE sy_tasks # <<>> => sy_agent_input = <<results_text(sy_tasks)>>

(***************************************************************************)
(* Properties of stopping the background loops                             *)
(***************************************************************************)
\* a loop whose stop() was called, or whose task has ended
ImprovementStopping == imp_pc \in {"cancelling", "stopped"}
AutonomousStopping == auto_pc \in {"cancelling", "stopped"}

\* a step after stop(): the cancelled task only ends, no cycle and no tick
\* starts, no reminder is fired
NoStartAfterStop ==
    /\ ImprovementStopping =>
          /\ imp_pc' \in {imp_pc, "stopped"}
          /\ cycle_count' = cycle_count
          /\ ~improvement_running'  \/ improvement_running
    /\ AutonomousStopping =>
          /\ auto_pc' \in {auto_pc, "stopped"}
          /\ due_items' = due_items
          /\ pending_reminders' = pending_reminders
          /\ ~auto_running' \/ auto_running

\* C32: after stop() the task of the loop ends at its next step: the
\* cancellation is not swallowed, no further cycle or tick starts, and
\* improvement_running is false once the improvement loop has stopped
C32_StopEndsLoop ==
    /\ [](imp_pc = "stopped" => ~improvement_running /\ ~imp_running)
    /\ [](auto_pc = "stopped" => ~auto_running)
    /\ [][NoStartAfterStop]_vars
    /\ (imp_pc = "cancelling") ~> (imp_pc = "stopped")
    /\ (auto_pc = "cancelling") ~> (auto_pc = "stopped")

\* both loops were stopped, the improvement loop in the middle of a cycle
C32_Witness ==
    /\ imp_pc = "stopped"
    /\ auto_pc = "stopped"
    /\ cycle_count >= 1
    /\ ~improvement_running
    /\ workspace = "repo"
    /\ due_items # <<>>

(***************************************************************************)
(* Properties of cancelled and paused items                                *)
(***************************************************************************)
\* the item is cancelled or paused
Held(row) == row # None /\ row.status \in {"cancelled", "paused"}

\* a step of _process_scheduled_items: the item fires or its run ends
LoopActs == si_processed' # si_processed

\* C34: a cancelled or paused item is neither fired nor modified by the
\* autonomous loop until it is resumed, also when it is cancelled or paused
\* after the tick read its due list and while a task is running; a
\* cancelled item never gets a next_run_at again and never becomes done
C34_HeldItemUntouched ==
    /\ [][(Held(si_item) /\ LoopActs) => si_item' = si_item]_vars
    /\ [][(si_item # None /\ si_item.status = "cancelled") =>
            (si_item'.status = "cancelled" /\ si_item'.next_run_at = None)]_vars

(***************************************************************************)
(* Properties of the cycles the gate lets start                            *)
(***************************************************************************)
\* the step in which _should_run returned True and the flags are set
CycleIsLetStart == gt_pc # "starting" /\ gt_pc' = "starting"

\* C35: no improvement cycle starts while a user request is in flight, also
\* when the request lasts longer than idle_minutes_before_run or when an
\* error logged during the request puts the loop in error mode
C35_NoCycleDuringUserRun ==
    [][CycleIsLetStart => ~gt_user_run]_vars

\* C38: in any window of an hour at most max_cycles_per_hour cycles start,
\* and two successive starts are at least interval_minutes apart, whatever
\* the outcome of the earlier cycles
C38_CycleRate ==
    /\ \A i \in DOMAIN gt_starts :
          Cardinality({j \in DOMAIN gt_starts :
                          /\ gt_starts[j] >= gt_starts[i]
                          /\ gt_starts[j] - gt_starts[i] < HourMinutes})
              <= max_cycles_per_hour
    /\ \A i \in DOMAIN gt_starts :
          i > 1 => gt_starts[i] - gt_starts[i - 1] >= interval_minutes

(***************************************************************************)
(* Properties of the ring of the error collector                           *)
(***************************************************************************)
\* a step in which an ErrorRecord counts one more occurrence: the record
\* is one get_unresolved reports after the step
CountedIsReported ==
    \A id \in DOMAIN ec_records :
        ec_records'[id].count > ec_records[id].count =>
            id \in {i \in {ec_errors'[n] : n \in DOMAIN ec_errors'} :
                       ~ec_records'[i].resolved}

\* C36: after any sequence of emit and mark_all_resolved every record of
\* the dedup index is also in the ring of 50, so that an occurrence is
\* never counted on an evicted record and every captured unresolved
\* occurrence is reported by get_unresolved
C36_DedupInRing ==
    /\ [](\A key \in DOMAIN ec_dedup_keys : ec_dedup_keys[key] \in InRing)
    /\ [][CountedIsReported]_vars

(***************************************************************************)
(* Properties of the due items of a tick                                   *)
(***************************************************************************)
\* C37: a failure while one due item is processed does not keep the other
\* due items of the tick from being fired and advanced, and does not make
\* the failing item fire again on every later tick: when the tick ends
\* every item it read has fired, and no item fires more often than it came
\* due
C37_FailureIsContained ==
    /\ (du_pc = "sleep" /\ du_ticks > 0) =>
          \A i \in DOMAIN du_snapshot : du_snapshot[i] \in du_fired
    /\ \A id \in DueItems : du_fires[id] <= du_dues[id]

(***************************************************************************)
(* Properties of the errors a cycle resolves                               *)
(***************************************************************************)
\* the step in which a cycle in fix mode merges
FixCycleMerges == cy_fix_mode /\ ~cy_merged /\ cy_merged'

\* C40: when a cycle in fix mode merges, only the errors listed in its
\* prompt are marked resolved: an error first captured while the cycle ran
\* stays unresolved and has_actionable_errors stays true
C40_LateErrorsKept ==
    [][(FixCycleMerges /\ cy_late_errors) => (cy_late_errors' /\ cy_errors')]_vars

====
